---- MODULE Spec2Model ----
(***************************************************************************)
(* focusgaurd: the proctoring dashboard (ProctoringDashboard), the video   *)
(* monitor with its detection interval (VideoMonitor), the detection hook  *)
(* (useDetection) and the alert hook (useAlerts), as one state machine.    *)
(*                                                                         *)
(* Times are milliseconds.  React state is modelled as the committed value *)
(* of each useState cell; a callback created by useCallback is modelled by *)
(* the values it closed over (its "closure"), because the interval         *)
(* callback keeps the callbacks of the render that created it.  Every      *)
(* action ends with the React commit that follows it: Commit runs the two  *)
(* effects of VideoMonitor until no state changes any more.                *)
(***************************************************************************)
EXTENDS Integers, Sequences, FiniteSets, TLC

\* ------------------------------------------------------------ bounds
MaxSeconds == 2          \* Spec runs this many seconds
MaxScoreSeconds == 3     \* SpecScore runs this many seconds
MaxAwaySeconds == 8      \* SpecAway runs this many seconds
MaxAbsenceSeconds == 12  \* SpecNoFace runs this many seconds
MaxLongAbsenceSeconds == 44 \* SpecLongAbsence runs this many seconds
MaxAlertSeconds == 6     \* SpecAlerts runs this many seconds past its first state
MaxTimers == 3           \* intervals created in one run of Spec
MaxScoreTimers == 3      \* ... of SpecScore
MaxAwayTimers == 2       \* ... of SpecAway
MaxAbsenceTimers == 2    \* ... of SpecNoFace
MaxLongAbsenceTimers == 4 \* ... of SpecLongAbsence
MaxInFlight == 2         \* frames sent to the face detector and not answered
MaxStartTasks == 2       \* handleStartMonitoring calls awaiting the camera or the models
MaxEvents == 3           \* events in the log in Spec
MaxScoreEvents == 18     \* ... in SpecScore
MaxAwayEvents == 2       \* ... in SpecAway
MaxAbsenceEvents == 2    \* ... in SpecNoFace
MaxLongAbsenceEvents == 5 \* ... in SpecLongAbsence
MaxRequests == 1         \* createSession / endSession requests in flight, each
MaxClearSeconds == 1     \* SpecClear runs this many seconds
MaxClearTimers == 2      \* intervals created in one run of SpecClear
MaxClearInFlight == 1    \* frames with the face detector in SpecClear
MaxClearEvents == 3      \* events in the log in SpecClear
MaxThrowSeconds == 3     \* SpecThrow runs this many seconds
MaxThrowTimers == 2      \* intervals created in one run of SpecThrow
MaxThrowEvents == 1      \* events in the log in SpecThrow
MaxSinkSeconds == 3      \* SpecSink runs this many seconds
MaxSinkTimers == 3       \* intervals created in one run of SpecSink
MaxSinkInFlight == 1     \* frames with the face detector in SpecSink
MaxSinkEvents == 2       \* events in the log in SpecSink
MaxCreateSeconds == 2    \* SpecCreate runs this many seconds
MaxCreateSessions == 3   \* sessions stored by the backend in SpecCreate
MaxReportSeconds == 1    \* SpecReport runs this many seconds
MaxReportEvents == 3     \* events in the log, and in a stored session, in SpecReport
MaxReportTimers == 1     \* intervals created in one run of SpecReport
MaxReportInFlight == 1   \* frames with the face detector in SpecReport
MaxDurationSeconds == 120 \* SpecDuration runs this many seconds
DurationPeriods == 40    \* ... in steps of this many interval periods
MaxDurationTimers == 2   \* intervals created in one run of SpecDuration
MaxDurationEvents == 1   \* events in the log in SpecDuration
MaxAudioSeconds == 2     \* SpecAudio runs this many seconds
MaxAudioTimers == 2      \* intervals created in one run of SpecAudio
MaxAudioInFlight == 1    \* frames with the face detector in SpecAudio
MaxAudioEvents == 2      \* events in the log in SpecAudio
MaxSharedSeconds == 8    \* SpecShared runs this many seconds
MaxSharedTimers == 4     \* intervals created in one run of SpecShared
MaxSharedInFlight == 1   \* frames with the face detector in SpecShared
MaxSharedEvents == 6     \* events in the log in SpecShared
MaxAckSeconds == 6       \* SpecAck runs this many seconds
MaxConcurrentSeconds == 2 \* SpecConcurrent runs this many seconds
MaxConcurrentTimers == 2 \* intervals created in one run of SpecConcurrent
MaxConcurrentInFlight == 1 \* frames with the face detector in SpecConcurrent
MaxConcurrentEvents == 4 \* events in the log in SpecConcurrent
MaxMirrorSeconds == 2    \* SpecMirror runs this many seconds
MaxMirrorTimers == 2     \* intervals created in one run of SpecMirror
MaxMirrorInFlight == 1   \* frames with the face detector in SpecMirror
MaxMirrorEvents == 2     \* events in the log in SpecMirror
MaxRecordSeconds == 2    \* SpecRecord runs this many seconds
MaxRecordTimers == 2     \* intervals created in one run of SpecRecord
MaxRecordInFlight == 1   \* frames with the face detector in SpecRecord
MaxRecordEvents == 1     \* events in the log in SpecRecord

\* ------------------------------------------------- program constants
IntervalMs == 1000            \* setInterval(..., 1000)
COOLDOWN_DURATION == 5000     \* useAlerts: COOLDOWN_DURATION
AlertsKept == 49              \* prev.slice(0, 49)
FocusLossThreshold == 5       \* result.focusLossDuration > 5
NoFaceThreshold == 10         \* duration > 10
HistoryLen == 10              \* focusHistoryRef.current.length > 10
LookingAwayAvg == 50          \* avgFocus < 50
FullScore == 100              \* let score = 100
HighPenalty == 10
MediumPenalty == 5
LowPenalty == 2
ScoreThresholdPct == 15       \* 0.15, as a percentage
MedicineThresholdPct == 10    \* 0.1, as a percentage
NoDate == 0 - 1               \* a Date | null cell holding null
NoTimer == 0                  \* detectionInterval holding null

Max(a, b) == IF a >= b THEN a ELSE b

\* ------------------------------------------------------ integrity score
Penalty(severity) ==
  CASE severity = "high" -> HighPenalty
    [] severity = "medium" -> MediumPenalty
    [] severity = "low" -> LowPenalty
    [] OTHER -> 0

RECURSIVE Deduct(_, _)
\* events.forEach((event) => { switch (event.severity) ... score -= ... })
Deduct(score, evs) ==
  IF evs = <<>> THEN score
  ELSE Deduct(score - Penalty(Head(evs).severity), Tail(evs))

\* the score without Math.max(0, score)
calculateIntegrityScoreUnclamped(evs) == Deduct(FullScore, evs)

calculateIntegrityScore(evs) == Max(0, Deduct(FullScore, evs))

\* --------------------------------------------------- useDetection.detectFrame
\* COCO-SSD class names that contain one of relevantObjects
RelevantClasses ==
  {"cell phone", "book", "laptop", "bottle", "cup", "backpack", "handbag",
   "suitcase", "tv", "remote", "keyboard", "mouse", "person"}

\* className.includes("bottle") || includes("cup") || includes("vial") || includes("container")
MedicineRelatedClasses == {"bottle", "cup"}

\* normalizeLabel, on the class names a detector can return
normalizeLabel(label) ==
  IF label \in {"cell phone", "phone", "mobile phone", "smartphone"} THEN "phone"
  ELSE IF label \in {"book", "books", "textbook", "notebook", "paper",
                     "document", "note", "notes", "sheet"} THEN "notes"
  ELSE IF label \in {"laptop", "computer", "tablet", "ipad", "surface",
                     "macbook", "kindle"} THEN "device"
  ELSE IF label \in {"headphones", "earphones", "earbuds", "headset", "airpods"}
       THEN "audio device"
  ELSE IF label \in {"bottle", "cup", "vial", "container"} THEN "medicine"
  ELSE label

\* the filter of predictions: isRelevant && hasConfidence
PassesFilter(pred) ==
  /\ pred.class \in RelevantClasses
  /\ pred.scorePct >= (IF pred.class \in MedicineRelatedClasses
                       THEN MedicineThresholdPct ELSE ScoreThresholdPct)

RECURSIVE FilterMap(_)
\* predictions.filter(...).map((pred) => normalizeLabel(pred.class))
FilterMap(preds) ==
  IF preds = <<>> THEN <<>>
  ELSE IF PassesFilter(Head(preds))
       THEN <<normalizeLabel(Head(preds).class)>> \o FilterMap(Tail(preds))
       ELSE FilterMap(Tail(preds))

\* detectObjectInHand: some prediction lies in the top half and is small
detectObjectInHand(preds) == \E i \in 1..Len(preds) : preds[i].inHand

\* finalObjectsDetected, with the "medicine" fallback
ObjectsDetected(preds) ==
  LET objectsDetected == FilterMap(preds)
  IN IF detectObjectInHand(preds) /\ objectsDetected = <<>> /\ Len(preds) > 0
     THEN <<"medicine">>
     ELSE objectsDetected

\* Math.round(confidenceFactor * 100) when centred, Math.round(confidenceFactor * 60) otherwise
FocusScore(face) ==
  IF face.count > 0
  THEN IF face.centered THEN face.confidencePct
       ELSE (face.confidencePct * 60 + 50) \div 100
  ELSE 0

RECURSIVE Sum(_)
Sum(seq) == IF seq = <<>> THEN 0 ELSE Head(seq) + Sum(Tail(seq))

\* focusHistoryRef.current.push(focusScore); if (length > 10) shift()
PushHistory(history, focusScore) ==
  LET pushed == Append(history, focusScore)
  IN IF Len(pushed) > HistoryLen THEN Tail(pushed) ELSE pushed

\* The synchronous part of detectFrame after the face results arrive, and the
\* DetectionResult it returns.  clock is new Date() taken inside detectFrame.
\* focusLossDuration is kept in milliseconds; 0 stands for undefined.
DetectFrame(history, lossStart, clock, face, preds) ==
  LET faceCount == face.count
      faceDetected == faceCount > 0
      focusScore == FocusScore(face)
      hist == PushHistory(history, focusScore)
      isLookingAway == Sum(hist) < LookingAwayAvg * Len(hist)
      start == IF isLookingAway
               THEN (IF lossStart = NoDate THEN clock ELSE lossStart)
               ELSE NoDate
      focusLossDuration == IF start # NoDate THEN clock - start ELSE 0
  IN [history |-> hist,
      lossStart |-> start,
      result |-> [faceDetected |-> faceDetected,
                  faceCount |-> faceCount,
                  focusScore |-> focusScore,
                  objectsDetected |-> ObjectsDetected(preds),
                  isLookingAway |-> isLookingAway,
                  focusLossDuration |-> IF focusLossDuration > 0
                                        THEN focusLossDuration ELSE 0]]

\* ------------------------------------------------------- useAlerts.addAlert
\* alertCooldowns is a function from alert type to the last accepted time; 0
\* stands for a missing key (the code tests lastAlert for truthiness).
AlertTypes == {"phone_detected", "notes_detected", "device_detected", "audio_detection"}

\* addAlert without the cooldown check
addAlertNoCooldown(st, type, message, severity, clock) ==
  [alerts |-> <<[id |-> <<type, clock>>, type |-> type, message |-> message,
                 severity |-> severity, timestamp |-> clock,
                 acknowledged |-> FALSE]>>
              \o SubSeq(st.alerts, 1, IF Len(st.alerts) < AlertsKept
                                      THEN Len(st.alerts) ELSE AlertsKept),
   cooldowns |-> [st.cooldowns EXCEPT ![type] = clock],
   accepted |-> TRUE,
   sound |-> (severity = "high")]

\* addAlert keeping one alert more: prev.slice(0, 50)
addAlertKeepsMore(st, type, message, severity, clock) ==
  LET lastAlert == st.cooldowns[type]
  IN IF lastAlert # 0 /\ clock - lastAlert < COOLDOWN_DURATION
     THEN [alerts |-> st.alerts, cooldowns |-> st.cooldowns,
           accepted |-> FALSE, sound |-> FALSE]
     ELSE [alerts |-> <<[id |-> <<type, clock>>, type |-> type, message |-> message,
                         severity |-> severity, timestamp |-> clock,
                         acknowledged |-> FALSE]>>
                      \o SubSeq(st.alerts, 1, IF Len(st.alerts) < AlertsKept + 1
                                              THEN Len(st.alerts) ELSE AlertsKept + 1),
           cooldowns |-> [st.cooldowns EXCEPT ![type] = clock],
           accepted |-> TRUE,
           sound |-> (severity = "high")]

\* One call of addAlert at time clock on st = [alerts, cooldowns]. sound tells
\* whether playAlertSound was called.
addAlert(st, type, message, severity, clock) ==
  LET lastAlert == st.cooldowns[type]
  IN IF lastAlert # 0 /\ clock - lastAlert < COOLDOWN_DURATION
     THEN [alerts |-> st.alerts, cooldowns |-> st.cooldowns,
           accepted |-> FALSE, sound |-> FALSE]
     ELSE [alerts |-> <<[id |-> <<type, clock>>, type |-> type, message |-> message,
                         severity |-> severity, timestamp |-> clock,
                         acknowledged |-> FALSE]>>
                      \o SubSeq(st.alerts, 1, IF Len(st.alerts) < AlertsKept
                                              THEN Len(st.alerts) ELSE AlertsKept),
           cooldowns |-> [st.cooldowns EXCEPT ![type] = clock],
           accepted |-> TRUE,
           sound |-> (severity = "high")]

RECURSIVE AddAlerts(_, _, _)
\* the addAlert calls of one tick, in call order
AddAlerts(st, calls, clock) ==
  IF calls = <<>> THEN [alerts |-> st.alerts, cooldowns |-> st.cooldowns]
  ELSE AddAlerts(addAlert(st, Head(calls).type, Head(calls).message,
                          Head(calls).severity, clock),
                 Tail(calls), clock)

\* acknowledgeAlert as a toggle: {...alert, acknowledged: !alert.acknowledged}
acknowledgeAlertToggles(list, alertId) ==
  [i \in 1..Len(list) |->
     IF list[i].id = alertId
     THEN [list[i] EXCEPT !.acknowledged = ~list[i].acknowledged]
     ELSE list[i]]

\* acknowledgeAlert: prev.map((alert) => alert.id === alertId ? {...alert, acknowledged: true} : alert)
acknowledgeAlert(list, alertId) ==
  [i \in 1..Len(list) |->
     IF list[i].id = alertId THEN [list[i] EXCEPT !.acknowledged = TRUE] ELSE list[i]]

\* ------------------------------------- ProctoringDashboard.handleDetectionResult
\* An event as addEvent receives it. object is the label put into the
\* description ("" when the description has none); duration is in
\* milliseconds, 0 for undefined.
EventArgs(type, description, object, severity, duration) ==
  [type |-> type, description |-> description, object |-> object,
   severity |-> severity, duration |-> duration]

AlertArgs(type, message, severity) ==
  [type |-> type, message |-> message, severity |-> severity]

\* the focus-loss check
FocusLossEvents(result) ==
  IF /\ result.isLookingAway
     /\ result.focusLossDuration # 0
     /\ result.focusLossDuration > FocusLossThreshold * 1000
  THEN <<EventArgs("focus_lost", "Looking away for N seconds", "", "medium",
                   result.focusLossDuration)>>
  ELSE <<>>

\* the no-face check, on the noFaceStart the callback closed over. set says
\* what setNoFaceStart is called with: "date" (now), "null", or "none".
NoFaceCheck(closedNoFaceStart, result, clock) ==
  IF ~result.faceDetected
  THEN IF closedNoFaceStart = NoDate
       THEN [events |-> <<>>, set |-> "date"]
       ELSE IF clock - closedNoFaceStart > NoFaceThreshold * 1000
            THEN [events |-> <<EventArgs("no_face", "No face detected for N seconds",
                                         "", "high", clock - closedNoFaceStart)>>,
                  set |-> "null"]
            ELSE [events |-> <<>>, set |-> "none"]
  ELSE [events |-> <<>>, set |-> "null"]

\* the multiple-faces check
MultipleFacesEvents(result) ==
  IF result.faceCount > 1
  THEN <<EventArgs("multiple_faces", "N faces detected", "", "high", 0)>>
  ELSE <<>>

\* switch (object.toLowerCase()): the event of one detected object
ObjectEvent(object) ==
  CASE object = "phone" ->
         EventArgs("phone_detected", "Mobile phone detected in frame", "", "high", 0)
    [] object \in {"book", "paper"} ->
         EventArgs("notes_detected", "Books or notes detected", "", "medium", 0)
    [] OTHER ->
         EventArgs("device_detected", "Unauthorized device detected: ", object,
                   "medium", 0)

RECURSIVE ObjectEvents(_)
\* result.objectsDetected.forEach(...): the addEvent calls
ObjectEvents(objects) ==
  IF objects = <<>> THEN <<>>
  ELSE <<ObjectEvent(Head(objects))>> \o ObjectEvents(Tail(objects))

RECURSIVE ObjectAlerts(_)
\* result.objectsDetected.forEach(...): the addAlert calls (same type, text, severity)
ObjectAlerts(objects) ==
  IF objects = <<>> THEN <<>>
  ELSE LET e == ObjectEvent(Head(objects))
       IN <<AlertArgs(e.type, <<e.description, e.object>>, e.severity)>>
          \o ObjectAlerts(Tail(objects))

\* the audio checks, on the audioResult the callback closed over
AudioAlerts(audio) ==
  (IF audio.backgroundNoise
   THEN <<AlertArgs("audio_detection", <<"Background noise detected", "">>, "low")>>
   ELSE <<>>)
  \o
  (IF audio.multipleVoices
   THEN <<AlertArgs("audio_detection", <<"Multiple voices detected", "">>, "high")>>
   ELSE <<>>)

AudioEvents(audio) ==
  IF audio.multipleVoices
  THEN <<EventArgs("device_detected",
                   "Multiple voices detected - possible unauthorized person",
                   "", "high", 0)>>
  ELSE <<>>

\* handleDetectionResult of the closure H = [session, noFaceStart, audioResult]
\* on one result: the addEvent calls and the addAlert calls in call order, and
\* the setNoFaceStart call.
handleDetectionResult(H, result, clock) ==
  LET noFace == NoFaceCheck(H.noFaceStart, result, clock)
  IN [fired |-> FocusLossEvents(result) \o noFace.events
                \o MultipleFacesEvents(result)
                \o ObjectEvents(result.objectsDetected)
                \o AudioEvents(H.audioResult),
      alertCalls |-> ObjectAlerts(result.objectsDetected) \o AudioAlerts(H.audioResult),
      setNoFace |-> noFace.set]

RECURSIVE PrependAtTail(_, _, _)
\* addEvent putting the new event behind the others: [...prev, newEvent]
PrependAtTail(fired, log, clock) ==
  IF fired = <<>> THEN log
  ELSE PrependAtTail(Tail(fired),
                     log \o <<[type |-> Head(fired).type, timestamp |-> clock,
                               description |-> Head(fired).description,
                               object |-> Head(fired).object,
                               severity |-> Head(fired).severity,
                               duration |-> Head(fired).duration]>>,
                     clock)

RECURSIVE Prepend(_, _, _)
\* addEvent, once per fired event: setEvents((prev) => [newEvent, ...prev])
Prepend(fired, log, clock) ==
  IF fired = <<>> THEN log
  ELSE Prepend(Tail(fired),
               <<[type |-> Head(fired).type, timestamp |-> clock,
                  description |-> Head(fired).description,
                  object |-> Head(fired).object,
                  severity |-> Head(fired).severity,
                  duration |-> Head(fired).duration]>> \o log,
               clock)

\* addEvent's request, once per fired event while the callback's session has
\* an id: apiService.addEvent(session.id, {type, description, severity, duration})
EventPosts(fired, closedSession) ==
  IF closedSession.status = "none" THEN <<>>
  ELSE [i \in 1..Len(fired) |-> [id |-> closedSession.id, event |-> fired[i]]]

\* ---------------------------------------------------------------- backend
EventTypes == {"focus_lost", "no_face", "multiple_faces", "phone_detected",
               "notes_detected", "device_detected"}
Severities == {"low", "medium", "high"}

\* what a handler answers: the HTTP status, the collection after it, and
\* the document it sends (none with an error)
Answer(status, store, doc) == [status |-> status, db |-> store, doc |-> doc]

\* POST /api/sessions without the check of candidateName (and, with it, of
\* the schema's required)
postSessionsUnchecked(store, body, id, clock) ==
  LET created == [id |-> id,
                  candidateName |-> IF "candidateName" \in DOMAIN body
                                    THEN body.candidateName ELSE <<>>,
                  startTime |-> clock, endTime |-> NoDate,
                  events |-> <<>>, integrityScore |-> FullScore,
                  status |-> "active"]
  IN Answer(200, Append(store, created), created)

\* POST /api/sessions. A body is a record; a field the request leaves out is
\* not in its domain. A name is the sequence of its characters.
postSessions(store, body, id, clock) ==
  IF "candidateName" \notin DOMAIN body \/ body.candidateName = <<>>
  THEN Answer(400, store, <<>>)
  ELSE LET created == [id |-> id, candidateName |-> body.candidateName,
                       startTime |-> clock, endTime |-> NoDate,
                       events |-> <<>>, integrityScore |-> FullScore,
                       status |-> "active"]
       IN Answer(200, Append(store, created), created)

\* the validators of ProctoringEventSchema that session.save() runs
ValidEvent(event) ==
  /\ event.type \in EventTypes
  /\ event.description # ""
  /\ event.severity \in Severities

\* POST /api/sessions/:id/events without the schema's validators
postEventsUnvalidated(store, id, event, clock) ==
  IF id \notin 1..Len(store) THEN Answer(404, store, <<>>)
  ELSE LET newEvent == [type |-> event.type, timestamp |-> clock,
                        description |-> event.description,
                        object |-> event.object,
                        severity |-> event.severity,
                        duration |-> event.duration]
           pushed == Append(store[id].events, newEvent)
       IN Answer(200,
                 [store EXCEPT ![id].events = pushed,
                               ![id].integrityScore = Max(0, Deduct(FullScore, pushed))],
                 newEvent)

\* POST /api/sessions/:id/events
postEvents(store, id, event, clock) ==
  IF id \notin 1..Len(store) THEN Answer(404, store, <<>>)
  ELSE IF ~ValidEvent(event) THEN Answer(500, store, <<>>)
  ELSE LET newEvent == [type |-> event.type, timestamp |-> clock,
                        description |-> event.description,
                        object |-> event.object,
                        severity |-> event.severity,
                        duration |-> event.duration]
           pushed == Append(store[id].events, newEvent)
       IN Answer(200,
                 [store EXCEPT ![id].events = pushed,
                               ![id].integrityScore = Max(0, Deduct(FullScore, pushed))],
                 newEvent)

\* POST /api/sessions/:id/events from its findOne on, on the document it
\* loaded: session.events.push(newEvent), the score of the loaded events with
\* the new one, and session.save(), which sends the changes of the document:
\* the push of the new event and the new integrityScore
saveEvent(store, id, loaded, newEvent) ==
  LET pushed == Append(loaded.events, newEvent)
  IN Answer(200,
            [store EXCEPT ![id].events = Append(@, newEvent),
                          ![id].integrityScore = Max(0, Deduct(FullScore, pushed))],
            newEvent)

\* PUT /api/sessions/:id/end
putEnd(store, id, clock) ==
  IF id \notin 1..Len(store) THEN Answer(404, store, <<>>)
  ELSE LET ended == [store[id] EXCEPT !.endTime = clock, !.status = "completed"]
       IN Answer(200, [store EXCEPT ![id] = ended], ended)

\* events.filter((e) => e.type === type).length
CountType(evs, type) == Cardinality({i \in 1..Len(evs) : evs[i].type = type})

\* Math.round of a / b, for b > 0: the nearest integer, a half going up
RoundDiv(a, b) == (2 * a + b) \div (2 * b)

\* GET /api/sessions/:id/report: the report of a stored session
report(doc, clock) ==
  LET duration == IF doc.endTime # NoDate
                  THEN RoundDiv(doc.endTime - doc.startTime, 1000 * 60)
                  ELSE RoundDiv(clock - doc.startTime, 1000 * 60)
  IN [sessionId |-> doc.id,
      candidateName |-> doc.candidateName,
      startTime |-> doc.startTime,
      endTime |-> doc.endTime,
      duration |-> duration,
      integrityScore |-> doc.integrityScore,
      totalEvents |-> Len(doc.events),
      eventsByType |->
        [focusLost |-> CountType(doc.events, "focus_lost"),
         noFace |-> CountType(doc.events, "no_face"),
         multipleFaces |-> CountType(doc.events, "multiple_faces"),
         phoneDetected |-> CountType(doc.events, "phone_detected"),
         notesDetected |-> CountType(doc.events, "notes_detected"),
         deviceDetected |-> CountType(doc.events, "device_detected")],
      events |-> doc.events]

\* ------------------------------------------------------ ProctoringReport
\* date-fns differenceInMinutes(later, earlier): the full minutes between
\* the two, rounded towards zero
differenceInMinutes(later, earlier) ==
  IF later >= earlier THEN (later - earlier) \div (1000 * 60)
  ELSE 0 - ((earlier - later) \div (1000 * 60))

\* ProctoringReport's duration
duration(s, clock) ==
  IF s.endTime # NoDate THEN differenceInMinutes(s.endTime, s.startTime)
  ELSE differenceInMinutes(clock, s.startTime)

\* ProctoringReport's getEventStats
getEventStats(s) ==
  LET stats == [focusLoss |-> CountType(s.events, "focus_lost"),
                noFace |-> CountType(s.events, "no_face"),
                multipleFaces |-> CountType(s.events, "multiple_faces"),
                phoneDetected |-> CountType(s.events, "phone_detected"),
                notesDetected |-> CountType(s.events, "notes_detected"),
                deviceDetected |-> CountType(s.events, "device_detected")]
  IN [stats |-> stats,
      totalViolations |-> stats.focusLoss + stats.noFace + stats.multipleFaces
                            + stats.phoneDetected + stats.notesDetected
                            + stats.deviceDetected]

\* ------------------------------------------------------------------ state
VARIABLES
  now,               \* the wall clock, ms
  \* ProctoringDashboard
  session,           \* useState<InterviewSession | null>; status "none" is null
  events,            \* useState<ProctoringEvent[]>, newest first
  noFaceStart,       \* useState<Date | null>
  \* useAudioDetection
  audioResult, isListening,
  \* useAlerts
  alerts, alertCooldowns,
  \* useVideoCapture
  isStreaming,
  recorder,          \* [isRecording, mediaRecorderRef]: the isRecording cell, and
                     \* whether mediaRecorderRef.current holds a recorder
  \* useDetection
  isInitialized, isDetecting, focusHistory, focusLossStartRef,
  cocoModel,         \* cocoModelRef.current holds the loaded object model
  \* VideoMonitor
  detectionInterval, \* useState<NodeJS.Timeout | null>: a timer id or NoTimer
  timer,             \* the interval that is set: [id, H, due]; H is the closure
                     \* of the onDetectionResult its callback closed over
  nextTimer,         \* the id setInterval returns next
  capturePending,    \* handleStartMonitoring calls awaiting getUserMedia, by the
                     \* isInitialized their startDetection closed over
  initPending,       \* those awaiting initializeDetection
  \* the face detector (faceDetectionRef.current)
  sent,              \* the number of frames sent and not yet answered
  waiting,           \* the detectFrame call whose onResults is registered and
                     \* not yet called: [pending, H], H the closure of the
                     \* onDetectionResult its interval callback closed over
  \* requests in flight to the backend, and the backend
  createPending, endPending, serverSessions,
  eventPosts,        \* the POST /api/sessions/:id/events requests addEvent has
                     \* sent and that are not answered: [id, event]
  db,                \* the backend's Session collection; a session's id is
                     \* its place in it
  response,          \* the status of the backend's last answer to a client
                     \* other than the dashboard; 0 before the first
  handling           \* the add-event requests the backend has read the session
                     \* for and not saved yet: [id, newEvent, loaded], loaded
                     \* being the document findOne gave

vars == <<now, session, events, noFaceStart, audioResult, isListening, alerts,
          alertCooldowns, isStreaming, isInitialized, isDetecting, focusHistory,
          focusLossStartRef, cocoModel, detectionInterval, timer, nextTimer,
          capturePending, initPending, sent, waiting, createPending, endPending, serverSessions,
          eventPosts, db, response, handling, recorder>>

dashboardVars == <<session, events, noFaceStart>>
audioVars == <<audioResult, isListening>>
alertVars == <<alerts, alertCooldowns>>
detectionRefs == <<focusHistory, focusLossStartRef, cocoModel>>
monitorVars == <<isStreaming, isDetecting, detectionInterval, timer, nextTimer,
                 capturePending, recorder>>
detectorVars == <<sent, waiting>>
requestVars == <<createPending, endPending, serverSessions, eventPosts, db,
                 response, handling>>

NoSession ==
  [id |-> 0, candidateName |-> <<>>, startTime |-> NoDate, endTime |-> NoDate,
   events |-> <<>>, integrityScore |-> 0, status |-> "none"]

Quiet == [backgroundNoise |-> FALSE, multipleVoices |-> FALSE]

\* the values handleDetectionResult (with its addEvent) closes over
Closure(s, nfs, audio) == [session |-> s, noFaceStart |-> nfs, audioResult |-> audio]

NoClosure == Closure(NoSession, NoDate, Quiet)
NoTimerRec == [id |-> NoTimer, H |-> NoClosure, due |-> FALSE]
NoWaiting == [pending |-> FALSE, H |-> NoClosure]

\* isActive={session?.status === "active"}
IsActive(s) == s.status = "active"

\* ------------------------------------------------- VideoMonitor's effects
clearInterval(t, id) == IF t.id = id THEN NoTimerRec ELSE t

RenderState(active, init, streaming, detecting, interval) ==
  [isActive |-> active, isInitialized |-> init, isStreaming |-> streaming,
   isDetecting |-> detecting, detectionInterval |-> interval]

RECURSIVE Commit(_, _, _, _)
\* The commit of a render and of the renders its effects cause. prev is the
\* previous render, cur this one (RenderState); handlerChanged tells whether
\* onDetectionResult is a new function in cur; w = [timer, nextTimer,
\* capturePending, H], H being the closure of cur's onDetectionResult.
\*   effect 1 (deps isActive, handleStartMonitoring, handleStopMonitoring):
\*     isActive ? handleStartMonitoring() : handleStopMonitoring()
\*   effect 2 (deps isStreaming, isDetecting, detectionInterval, captureFrame,
\*     detectFrame, onDetectionResult): sets the interval when there is none;
\*     its cleanup clears the interval of the render it ran in.
\* Cleanups run before the effect bodies; the bodies see cur, and the state
\* they set is the next render. w.stopped tells whether handleStopMonitoring,
\* and with it stopCapture, has run.
Commit(prev, cur, handlerChanged, w) ==
  LET effect1 == \/ prev.isActive # cur.isActive
                 \/ prev.isInitialized # cur.isInitialized
                 \/ prev.detectionInterval # cur.detectionInterval
      effect2 == \/ prev.isStreaming # cur.isStreaming
                 \/ prev.isDetecting # cur.isDetecting
                 \/ prev.detectionInterval # cur.detectionInterval
                 \/ handlerChanged
      cleaned == IF effect2 /\ prev.detectionInterval # NoTimer
                 THEN clearInterval(w.timer, prev.detectionInterval)
                 ELSE w.timer
      stop == effect1 /\ ~cur.isActive
      start == effect1 /\ cur.isActive
      stopped == IF stop /\ cur.detectionInterval # NoTimer
                 THEN clearInterval(cleaned, cur.detectionInterval)
                 ELSE cleaned
      create == /\ effect2
                /\ cur.isStreaming /\ cur.isDetecting
                /\ cur.detectionInterval = NoTimer
      next == [cur EXCEPT
                 !.isStreaming = IF stop THEN FALSE ELSE @,
                 !.isDetecting = IF stop THEN FALSE ELSE @,
                 !.detectionInterval = IF create THEN w.nextTimer
                                       ELSE IF stop THEN NoTimer ELSE @]
      w2 == [timer |-> IF create
                       THEN [id |-> w.nextTimer, H |-> w.H, due |-> FALSE]
                       ELSE stopped,
             nextTimer |-> IF create THEN w.nextTimer + 1 ELSE w.nextTimer,
             capturePending |->
               IF start
               THEN [w.capturePending EXCEPT ![cur.isInitialized] = @ + 1]
               ELSE w.capturePending,
             H |-> w.H,
             stopped |-> w.stopped \/ stop]
  IN IF ~effect1 /\ ~effect2
     THEN [state |-> cur, world |-> w]
     ELSE Commit(cur, next, FALSE, w2)

\* The commit after an action that leaves the dashboard with session s,
\* noFaceStart nfs, audioResult audio, and the monitor with the given state.
Rendered(s, nfs, audio, init, streaming, detecting, interval, t, pending, handlerChanged) ==
  Commit(RenderState(IsActive(session), isInitialized, isStreaming, isDetecting,
                     detectionInterval),
         RenderState(IsActive(s), init, streaming, detecting, interval),
         handlerChanged,
         [timer |-> t, nextTimer |-> nextTimer, capturePending |-> pending,
          H |-> Closure(s, nfs, audio), stopped |-> FALSE])

\* handleStartMonitoring calls that have not finished
PendingStarts(pending, inits) == pending[TRUE] + pending[FALSE] + inits

\* ------------------------------------------------ useVideoCapture: recording
NoRecorder == [isRecording |-> FALSE, mediaRecorderRef |-> FALSE]

\* stopRecording of a render whose isRecording was closedIsRecording:
\* if (mediaRecorderRef.current && isRecording) { stop(); ref = null; setIsRecording(false) }
stopRecording(closedIsRecording, rec) ==
  IF rec.mediaRecorderRef /\ closedIsRecording THEN NoRecorder ELSE rec

\* stopCapture, on the recorder. Its useCallback has no dependencies, so it
\* is the function of the first render and calls the stopRecording of that
\* render, which closed over isRecording = false.
stopCapture(rec) == stopRecording(FALSE, rec)

\* startRecording of a render whose isRecording was closedIsRecording, with
\* or without a stream in streamRef
startRecording(closedIsRecording, stream, rec) ==
  IF ~stream \/ closedIsRecording THEN rec
  ELSE [isRecording |-> TRUE, mediaRecorderRef |-> TRUE]

\* the monitor's variables after a commit r
SetMonitor(r) ==
  /\ recorder' = IF r.world.stopped THEN stopCapture(recorder) ELSE recorder
  /\ isStreaming' = r.state.isStreaming
  /\ isDetecting' = r.state.isDetecting
  /\ detectionInterval' = r.state.detectionInterval
  /\ timer' = r.world.timer
  /\ nextTimer' = r.world.nextTimer
  /\ capturePending' = r.world.capturePending

\* ------------------------------------------------------------------ Init
Init ==
  /\ now = IntervalMs
  /\ session = NoSession
  /\ events = <<>>
  /\ noFaceStart = NoDate
  /\ audioResult = Quiet
  /\ isListening = FALSE
  /\ alerts = <<>>
  /\ alertCooldowns = [t \in AlertTypes |-> 0]
  /\ isStreaming = FALSE
  /\ recorder = NoRecorder
  /\ isInitialized = FALSE
  /\ isDetecting = FALSE
  /\ focusHistory = <<>>
  /\ focusLossStartRef = NoDate
  /\ cocoModel = FALSE
  /\ detectionInterval = NoTimer
  /\ timer = NoTimerRec
  /\ nextTimer = 1
  /\ capturePending = [i \in BOOLEAN |-> 0]
  /\ initPending = 0
  /\ sent = 0
  /\ waiting = NoWaiting
  /\ createPending = <<>>
  /\ endPending = <<>>
  /\ serverSessions = 0
  /\ eventPosts = <<>>
  /\ db = <<>>
  /\ response = 0
  /\ handling = <<>>

\* ---------------------------------------------------------------- actions
\* Time passes, a number of interval periods at once, up to the end of the
\* run; an interval that is set becomes due. A due interval fires once,
\* however many periods have passed.
AdvanceClock(periods, seconds) ==
  /\ now + periods * IntervalMs <= IntervalMs * (seconds + 1)
  /\ now' = now + periods * IntervalMs
  /\ timer' = IF timer.id # NoTimer THEN [timer EXCEPT !.due = TRUE] ELSE timer
  /\ UNCHANGED <<dashboardVars, audioVars, alertVars, isStreaming, isInitialized,
                 isDetecting, detectionRefs, detectionInterval, nextTimer,
                 capturePending, recorder, initPending, detectorVars, requestVars>>

\* the characters String.prototype.trim() takes for white space, of those
\* the names of the runs are written with
WhiteSpace == {" ", "\t"}

RECURSIVE TrimStart(_)
TrimStart(name) ==
  IF name # <<>> /\ Head(name) \in WhiteSpace THEN TrimStart(Tail(name)) ELSE name

RECURSIVE TrimEnd(_)
TrimEnd(name) ==
  IF name # <<>> /\ name[Len(name)] \in WhiteSpace
  THEN TrimEnd(SubSeq(name, 1, Len(name) - 1))
  ELSE name

\* candidateName.trim()
Trim(name) == TrimEnd(TrimStart(name))

\* startSession up to its await: the "Start Session" button shows while !session
StartSessionClick(names) ==
  /\ session.status = "none"
  /\ \E name \in names :
       IF Trim(name) = <<>>
       THEN UNCHANGED createPending
       ELSE /\ Len(createPending) < MaxRequests
            /\ createPending' = Append(createPending, Trim(name))
  /\ UNCHANGED <<now, dashboardVars, audioVars, alertVars, isInitialized,
                 detectionRefs, monitorVars, initPending, detectorVars,
                 endPending, serverSessions, eventPosts, db, response, handling>>

\* POST /api/sessions answers and startSession resumes: setSession, setEvents([])
CreateSessionResolve ==
  /\ createPending # <<>>
  /\ createPending' = Tail(createPending)
  /\ \E ok \in BOOLEAN :
       IF ok
       THEN LET answer == postSessions(db, [candidateName |-> Head(createPending)],
                                        serverSessions + 1, now)
                created == answer.doc
                r == Rendered(created, noFaceStart, audioResult, isInitialized,
                              isStreaming, isDetecting, detectionInterval, timer,
                              capturePending, TRUE)
            IN /\ serverSessions' = serverSessions + 1
               /\ db' = answer.db
               /\ session' = created
               /\ events' = <<>>
               /\ SetMonitor(r)
       ELSE UNCHANGED <<serverSessions, db, session, events, monitorVars>>
  /\ UNCHANGED <<now, noFaceStart, audioVars, alertVars, isInitialized,
                 detectionRefs, initPending, detectorVars, endPending,
                 eventPosts, response, handling>>

\* endSession up to its await: the button is enabled until status is completed
EndSessionClick ==
  /\ session.status \notin {"none", "completed"}
  /\ Len(endPending) < MaxRequests
  /\ endPending' = Append(endPending, session)
  /\ UNCHANGED <<now, dashboardVars, audioVars, alertVars, isInitialized,
                 detectionRefs, monitorVars, initPending, detectorVars,
                 createPending, serverSessions, eventPosts, db, response, handling>>

\* PUT /api/sessions/:id/end answers and endSession resumes with the session
\* it closed over: setSession({...session, endTime, status: "completed"})
EndSessionResolve ==
  /\ endPending # <<>>
  /\ endPending' = Tail(endPending)
  /\ \E ok \in BOOLEAN :
       IF ok
       THEN LET answer == putEnd(db, Head(endPending).id, now)
                ended == [Head(endPending) EXCEPT !.endTime = answer.doc.endTime,
                                                  !.status = "completed"]
                r == Rendered(ended, noFaceStart, audioResult, isInitialized,
                              isStreaming, isDetecting, detectionInterval, timer,
                              capturePending, TRUE)
            IN /\ db' = answer.db
               /\ session' = ended
               /\ SetMonitor(r)
       ELSE UNCHANGED <<db, session, monitorVars>>
  /\ UNCHANGED <<now, events, noFaceStart, audioVars, alertVars, isInitialized,
                 detectionRefs, initPending, detectorVars, createPending,
                 serverSessions, eventPosts, response, handling>>

\* clearLog without the reset of the score
clearLogKeepsScore(s) ==
  IF s.status = "none" THEN s ELSE [s EXCEPT !.events = <<>>]

\* clearLog's setSession: if (session) setSession({...session, events: [],
\* integrityScore: 100})
clearLog(s) ==
  IF s.status = "none" THEN s
  ELSE [s EXCEPT !.events = <<>>, !.integrityScore = FullScore]

\* clearLog
ClearLogClick ==
  /\ LET cleared == clearLog(session)
         r == Rendered(cleared, noFaceStart, audioResult, isInitialized,
                       isStreaming, isDetecting, detectionInterval, timer,
                       capturePending, session.status # "none")
     IN /\ events' = <<>>
        /\ session' = cleared
        /\ SetMonitor(r)
  /\ UNCHANGED <<now, noFaceStart, audioVars, alertVars, isInitialized,
                 detectionRefs, initPending, detectorVars, requestVars>>

\* handleStopMonitoring, from the "Stop Monitoring" button (shown while isActive)
StopMonitoringClick ==
  /\ IsActive(session)
  /\ LET r == Rendered(session, noFaceStart, audioResult, isInitialized,
                       FALSE, FALSE, NoTimer,
                       IF detectionInterval # NoTimer
                       THEN clearInterval(timer, detectionInterval) ELSE timer,
                       capturePending, FALSE)
     IN SetMonitor([r EXCEPT !.world.stopped = TRUE])
  /\ UNCHANGED <<now, dashboardVars, audioVars, alertVars, isInitialized,
                 detectionRefs, initPending, detectorVars, requestVars>>

\* The record button (it shows while isStreaming): startRecording while
\* isRecording is false, stopRecording while it is true, both of the current
\* render.
RecordClick ==
  /\ isStreaming
  /\ recorder' = IF recorder.isRecording
                 THEN stopRecording(recorder.isRecording, recorder)
                 ELSE startRecording(recorder.isRecording, isStreaming, recorder)
  /\ UNCHANGED <<now, dashboardVars, audioVars, alertVars, isStreaming,
                 isInitialized, isDetecting, detectionRefs, detectionInterval,
                 timer, nextTimer, capturePending, initPending, detectorVars,
                 requestVars>>

\* handleStartMonitoring up to its first await, from the "Start Monitoring"
\* button (shown while !isActive)
StartMonitoringClick ==
  /\ ~IsActive(session)
  /\ capturePending' = [capturePending EXCEPT ![isInitialized] = @ + 1]
  /\ UNCHANGED <<now, dashboardVars, audioVars, alertVars, isStreaming,
                 isInitialized, isDetecting, detectionRefs, detectionInterval,
                 timer, nextTimer, recorder, initPending, detectorVars,
                 requestVars>>

\* getUserMedia answers a handleStartMonitoring call whose startDetection
\* closed over isInitialized = closed: startCapture sets isStreaming (or the
\* error), then startDetection runs up to its await of initializeDetection;
\* when the models are loaded already that await is immediate.
CaptureResolve(closed, grants) ==
  /\ capturePending[closed] > 0
  /\ \E granted \in grants :
       LET immediate == closed \/ isInitialized
           r == Rendered(session, noFaceStart, audioResult, isInitialized,
                         IF granted THEN TRUE ELSE isStreaming,
                         IF immediate THEN TRUE ELSE isDetecting,
                         detectionInterval, timer,
                         [capturePending EXCEPT ![closed] = @ - 1], FALSE)
       IN /\ SetMonitor(r)
          /\ initPending' = IF immediate THEN initPending ELSE initPending + 1
  /\ UNCHANGED <<now, dashboardVars, audioVars, alertVars, isInitialized,
                 detectionRefs, detectorVars, requestVars>>

\* initializeDetection finishes: the models are loaded, setIsInitialized(true),
\* then startDetection resumes with setIsDetecting(true)
InitResolve ==
  /\ initPending > 0
  /\ initPending' = initPending - 1
  /\ isInitialized' = TRUE
  /\ cocoModel' = TRUE
  /\ LET r == Rendered(session, noFaceStart, audioResult, TRUE, isStreaming,
                       TRUE, detectionInterval, timer, capturePending, FALSE)
     IN SetMonitor(r)
  /\ UNCHANGED <<now, dashboardVars, audioVars, alertVars, focusHistory,
                 focusLossStartRef, detectorVars, requestVars>>

\* initializeDetection fails to load the object model: its catch writes to the
\* console, isInitialized stays false, and startDetection resumes with
\* setIsDetecting(true) all the same
InitReject ==
  /\ initPending > 0
  /\ ~cocoModel
  /\ initPending' = initPending - 1
  /\ LET r == Rendered(session, noFaceStart, audioResult, isInitialized,
                       isStreaming, TRUE, detectionInterval, timer,
                       capturePending, FALSE)
     IN SetMonitor(r)
  /\ UNCHANGED <<now, dashboardVars, audioVars, alertVars, isInitialized,
                 detectionRefs, detectorVars, requestVars>>

\* The interval fires: captureFrame() gives a frame (the callback closed over
\* isStreaming = true), and detectFrame runs up to its await of the face
\* results: it registers its own onResults, replacing the one registered by a
\* call still waiting, and sends the frame.
TickStart ==
  /\ timer.id # NoTimer
  /\ timer.due
  /\ timer' = [timer EXCEPT !.due = FALSE]
  /\ sent' = sent + 1
  /\ waiting' = [pending |-> TRUE, H |-> timer.H]
  /\ UNCHANGED <<now, dashboardVars, audioVars, alertVars, isStreaming,
                 isInitialized, isDetecting, detectionRefs, detectionInterval,
                 nextTimer, capturePending, recorder, initPending, requestVars>>

RECURSIVE NotCooling(_, _, _)
\* the fired events whose type has no alert accepted within COOLDOWN_DURATION
NotCooling(fired, cooldowns, clock) ==
  IF fired = <<>> THEN <<>>
  ELSE IF /\ Head(fired).type \in DOMAIN cooldowns
          /\ cooldowns[Head(fired).type] # 0
          /\ clock - cooldowns[Head(fired).type] < COOLDOWN_DURATION
       THEN NotCooling(Tail(fired), cooldowns, clock)
       ELSE <<Head(fired)>> \o NotCooling(Tail(fired), cooldowns, clock)

\* FaceResults with an addEvent that returns, as addAlert does, while the
\* event's type is under the cooldown of the alerts
FaceResultsSharedCooldown(faces, predictions, maxEvents) ==
  /\ sent > 0
  /\ sent' = sent - 1
  /\ waiting' = NoWaiting
  /\ IF ~waiting.pending
     THEN UNCHANGED <<dashboardVars, alertVars, detectionRefs, monitorVars,
                      eventPosts>>
     ELSE \E face \in faces, preds \in predictions :
       LET H == waiting.H
           d == DetectFrame(focusHistory, focusLossStartRef, now, face, preds)
           h == handleDetectionResult(H, d.result, now)
           fired == NotCooling(h.fired, alertCooldowns, now)
           log == Prepend(fired, events, now)
           written == fired # <<>> /\ H.session.status # "none"
           s == IF written
                THEN [H.session EXCEPT
                        !.events = log,
                        !.integrityScore = calculateIntegrityScore(log)]
                ELSE session
           nfs == CASE h.setNoFace = "date" -> now
                    [] h.setNoFace = "null" -> NoDate
                    [] OTHER -> noFaceStart
           changed == \/ written
                      \/ h.setNoFace = "date"
                      \/ h.setNoFace = "null" /\ noFaceStart # NoDate
           a == AddAlerts([alerts |-> alerts, cooldowns |-> alertCooldowns],
                          h.alertCalls, now)
           r == Rendered(s, nfs, audioResult, isInitialized, isStreaming,
                         isDetecting, detectionInterval, timer, capturePending,
                         changed)
       IN /\ Len(log) <= maxEvents
          /\ focusHistory' = d.history
          /\ focusLossStartRef' = d.lossStart
          /\ cocoModel' = TRUE
          /\ events' = log
          /\ session' = s
          /\ noFaceStart' = nfs
          /\ alerts' = a.alerts
          /\ alertCooldowns' = a.cooldowns
          /\ eventPosts' = eventPosts \o EventPosts(fired, H.session)
          /\ SetMonitor(r)
  /\ UNCHANGED <<now, audioVars, isInitialized, initPending, createPending,
                 endPending, serverSessions, db, response, handling>>

\* The face detector answers the oldest frame sent, calling the onResults
\* that is registered. If no detectFrame call waits on it the results are
\* dropped; otherwise that call resumes: focus tracking, object detection and
\* the result, and the interval callback passes the result to the
\* onDetectionResult it closed over (closure waiting.H).
FaceResults(faces, predictions, maxEvents) ==
  /\ sent > 0
  /\ sent' = sent - 1
  /\ waiting' = NoWaiting
  /\ IF ~waiting.pending
     THEN UNCHANGED <<dashboardVars, alertVars, detectionRefs, monitorVars,
                      eventPosts>>
     ELSE \E face \in faces, preds \in predictions :
       LET H == waiting.H
           d == DetectFrame(focusHistory, focusLossStartRef, now, face, preds)
           h == handleDetectionResult(H, d.result, now)
           log == Prepend(h.fired, events, now)
           written == h.fired # <<>> /\ H.session.status # "none"
           s == IF written
                THEN [H.session EXCEPT
                        !.events = log,
                        !.integrityScore = calculateIntegrityScore(log)]
                ELSE session
           nfs == CASE h.setNoFace = "date" -> now
                    [] h.setNoFace = "null" -> NoDate
                    [] OTHER -> noFaceStart
           changed == \/ written
                      \/ h.setNoFace = "date"
                      \/ h.setNoFace = "null" /\ noFaceStart # NoDate
           a == AddAlerts([alerts |-> alerts, cooldowns |-> alertCooldowns],
                          h.alertCalls, now)
           r == Rendered(s, nfs, audioResult, isInitialized, isStreaming,
                         isDetecting, detectionInterval, timer, capturePending,
                         changed)
       IN /\ Len(log) <= maxEvents
          /\ focusHistory' = d.history
          /\ focusLossStartRef' = d.lossStart
          /\ cocoModel' = TRUE
          /\ events' = log
          /\ session' = s
          /\ noFaceStart' = nfs
          /\ alerts' = a.alerts
          /\ alertCooldowns' = a.cooldowns
          /\ eventPosts' = eventPosts \o EventPosts(h.fired, H.session)
          /\ SetMonitor(r)
  /\ UNCHANGED <<now, audioVars, isInitialized, initPending, createPending,
                 endPending, serverSessions, db, response, handling>>

\* The face detector answers a detectFrame call that waits, and the call
\* rejects: while cocoModelRef.current is null detectFrame loads the object
\* model after its focus tracking, and the load fails (both cocoSsd.load
\* calls). The interval callback catches the error and writes to the console.
DetectFrameRejects(faces) ==
  /\ sent > 0
  /\ waiting.pending
  /\ ~cocoModel
  /\ sent' = sent - 1
  /\ waiting' = NoWaiting
  /\ \E face \in faces :
       LET d == DetectFrame(focusHistory, focusLossStartRef, now, face, <<>>)
       IN /\ focusHistory' = d.history
          /\ focusLossStartRef' = d.lossStart
  /\ UNCHANGED <<now, dashboardVars, audioVars, alertVars, isInitialized,
                 cocoModel, monitorVars, initPending, requestVars>>

\* addEvent's request with a .catch that takes the event back out of the log
AddEventResolveRollsBack(outcomes) ==
  /\ \E i \in 1..Len(eventPosts), ok \in outcomes :
       /\ eventPosts' = SubSeq(eventPosts, 1, i - 1)
                          \o SubSeq(eventPosts, i + 1, Len(eventPosts))
       /\ db' = IF ok THEN postEvents(db, eventPosts[i].id, eventPosts[i].event, now).db
                ELSE db
       /\ events' = IF ok \/ events = <<>> THEN events ELSE Tail(events)
  /\ UNCHANGED <<now, session, noFaceStart, audioVars, alertVars, isInitialized,
                 detectionRefs, monitorVars, initPending, detectorVars,
                 createPending, endPending, serverSessions, response, handling>>

\* A request of addEvent is answered, or fails on the way. With ok the backend
\* has handled it; the promise's .catch only writes to the console, so the
\* dashboard changes in neither case.
AddEventResolve(outcomes) ==
  /\ \E i \in 1..Len(eventPosts), ok \in outcomes :
       /\ eventPosts' = SubSeq(eventPosts, 1, i - 1)
                          \o SubSeq(eventPosts, i + 1, Len(eventPosts))
       /\ db' = IF ok THEN postEvents(db, eventPosts[i].id, eventPosts[i].event, now).db
                ELSE db
  /\ UNCHANGED <<now, dashboardVars, audioVars, alertVars, isInitialized,
                 detectionRefs, monitorVars, initPending, detectorVars,
                 createPending, endPending, serverSessions, response, handling>>

\* A request of addEvent reaches the backend, or fails on the way: the
\* handler awaits Session.findOne and resumes with the document, up to its
\* await of session.save(). Without the session it answers 404.
PostEventsFind(outcomes) ==
  /\ \E i \in 1..Len(eventPosts), ok \in outcomes :
       LET post == eventPosts[i]
           newEvent == [type |-> post.event.type, timestamp |-> now,
                        description |-> post.event.description,
                        object |-> post.event.object,
                        severity |-> post.event.severity,
                        duration |-> post.event.duration]
       IN /\ eventPosts' = SubSeq(eventPosts, 1, i - 1)
                             \o SubSeq(eventPosts, i + 1, Len(eventPosts))
          /\ handling' = IF ok /\ post.id \in 1..Len(db)
                         THEN Append(handling, [id |-> post.id, newEvent |-> newEvent,
                                                loaded |-> db[post.id]])
                         ELSE handling
  /\ UNCHANGED <<now, dashboardVars, audioVars, alertVars, isInitialized,
                 detectionRefs, monitorVars, initPending, detectorVars,
                 createPending, endPending, serverSessions, db, response>>

\* session.save() of an add-event handler completes: a document that fails
\* the schema's validators is not saved (the handler answers 500)
PostEventsSave ==
  /\ \E j \in 1..Len(handling) :
       LET h == handling[j]
       IN /\ handling' = SubSeq(handling, 1, j - 1)
                           \o SubSeq(handling, j + 1, Len(handling))
          /\ db' = IF ValidEvent(h.newEvent)
                   THEN saveEvent(db, h.id, h.loaded, h.newEvent).db
                   ELSE db
  /\ UNCHANGED <<now, dashboardVars, audioVars, alertVars, isInitialized,
                 detectionRefs, monitorVars, initPending, detectorVars,
                 createPending, endPending, serverSessions, eventPosts, response>>

\* A client other than the dashboard sends POST /api/sessions
PostSessionsRequest(bodies) ==
  /\ \E body \in bodies :
       LET answer == postSessions(db, body, serverSessions + 1, now)
       IN /\ db' = answer.db
          /\ serverSessions' = Len(answer.db)
          /\ response' = answer.status
  /\ UNCHANGED <<now, dashboardVars, audioVars, alertVars, isInitialized,
                 detectionRefs, monitorVars, initPending, detectorVars,
                 createPending, endPending, eventPosts, handling>>

\* A client other than the dashboard sends POST /api/sessions/:id/events
PostEventsRequest(ids, bodies) ==
  /\ \E id \in ids, body \in bodies :
       LET answer == postEvents(db, id, body, now)
       IN /\ db' = answer.db
          /\ response' = answer.status
  /\ UNCHANGED <<now, dashboardVars, audioVars, alertVars, isInitialized,
                 detectionRefs, monitorVars, initPending, detectorVars,
                 createPending, endPending, serverSessions, eventPosts,
                 handling>>

\* The audio button (it shows while a session exists). While listening it is
\* stopAudioDetection: the loop is cancelled and audioResult keeps its last
\* value. Otherwise it is startAudioDetection with the microphone granted:
\* setIsListening(true), and analyzeAudio() runs the first round of its loop.
ToggleAudioClick ==
  /\ session.status # "none"
  /\ isListening' = ~isListening
  /\ IF isListening
     THEN UNCHANGED <<audioResult, monitorVars>>
     ELSE \E noise \in BOOLEAN, voices \in BOOLEAN :
       LET audio == [backgroundNoise |-> noise, multipleVoices |-> voices]
           r == Rendered(session, noFaceStart, audio, isInitialized, isStreaming,
                         isDetecting, detectionInterval, timer, capturePending,
                         TRUE)
       IN /\ audioResult' = audio
          /\ SetMonitor(r)
  /\ UNCHANGED <<now, dashboardVars, alertVars, isInitialized, detectionRefs,
                 initPending, detectorVars, requestVars>>

\* one round of the analyzeAudio loop: setAudioResult({...}), a new object
AudioFrame ==
  /\ isListening
  /\ \E noise \in BOOLEAN, voices \in BOOLEAN :
       LET audio == [backgroundNoise |-> noise, multipleVoices |-> voices]
           r == Rendered(session, noFaceStart, audio, isInitialized, isStreaming,
                         isDetecting, detectionInterval, timer, capturePending,
                         TRUE)
       IN /\ audioResult' = audio
          /\ SetMonitor(r)
  /\ UNCHANGED <<now, dashboardVars, isListening, alertVars, isInitialized,
                 detectionRefs, initPending, detectorVars, requestVars>>

\* acknowledgeAlert from the alerts panel, on the alert shown at one of positions
AcknowledgeClick(positions) ==
  /\ \E i \in positions \cap (1..Len(alerts)) :
       alerts' = acknowledgeAlert(alerts, alerts[i].id)
  /\ UNCHANGED <<now, dashboardVars, audioVars, alertCooldowns, isInitialized,
                 detectionRefs, monitorVars, initPending, detectorVars,
                 requestVars>>

\* clearAlerts that also forgets the cooldowns: alertCooldowns.current.clear()
ClearAlertsClickForgets ==
  /\ alerts' = <<>>
  /\ alertCooldowns' = [t \in AlertTypes |-> 0]
  /\ UNCHANGED <<now, dashboardVars, audioVars, isInitialized,
                 detectionRefs, monitorVars, initPending, detectorVars,
                 requestVars>>

\* clearAlerts from the alerts panel
ClearAlertsClick ==
  /\ alerts' = <<>>
  /\ UNCHANGED <<now, dashboardVars, audioVars, alertCooldowns, isInitialized,
                 detectionRefs, monitorVars, initPending, detectorVars,
                 requestVars>>

\* addAlert called at the current time with one of the given types and severities
AddAlertCall(types, severities) ==
  /\ \E type \in types, severity \in severities :
       LET r == addAlert([alerts |-> alerts, cooldowns |-> alertCooldowns],
                         type, <<"alert", "">>, severity, now)
       IN /\ alerts' = r.alerts
          /\ alertCooldowns' = r.cooldowns
  /\ UNCHANGED <<now, dashboardVars, audioVars, isInitialized, detectionRefs,
                 monitorVars, initPending, detectorVars, requestVars>>

\* ---------------------------------------------------------------- inputs
\* what is typed into the candidate name field
Ada == <<"A", "d", "a">>

\* a model bound on the sessions the backend stores
Stored(maxSessions) == Len(db') <= maxSessions

\* a model bound on the events of a stored session
Logged(maxLogged) == \A id \in 1..Len(db') : Len(db'[id].events) <= maxLogged

Face(count, centered, confidencePct) ==
  [count |-> count, centered |-> centered, confidencePct |-> confidencePct]
Prediction(class, scorePct, inHand) ==
  [class |-> class, scorePct |-> scorePct, inHand |-> inHand]

NoFace == Face(0, FALSE, 0)
FocusedFace == Face(1, TRUE, 90)
AwayFace == Face(1, FALSE, 70)
TwoFaces == Face(2, TRUE, 90)

\* frames in flight stay within the bound
InFlight(maxInFlight) == sent' <= maxInFlight

\* intervals created and handleStartMonitoring calls pending stay within bounds
Within(maxTimers) ==
  /\ nextTimer' <= maxTimers + 1
  /\ PendingStarts(capturePending', initPending') <= MaxStartTasks

\* ------------------------------------------------- general specification
\* A session from the start page on: the session's life, the monitor with its
\* restarts, and ticks that see one face or two and nothing, a phone, a book
\* or a laptop.
CandidateNames == {<<>>, Ada}
Faces == {FocusedFace, TwoFaces}
Predictions ==
  {<<>>,
   <<Prediction("cell phone", 60, FALSE)>>,
   <<Prediction("book", 60, FALSE)>>,
   <<Prediction("laptop", 60, FALSE)>>}

Next ==
  \/ AdvanceClock(1, MaxSeconds)
  \/ StartSessionClick(CandidateNames)
  \/ CreateSessionResolve /\ Within(MaxTimers)
  \/ EndSessionClick
  \/ EndSessionResolve /\ Within(MaxTimers)
  \/ ClearLogClick /\ Within(MaxTimers)
  \/ StopMonitoringClick /\ Within(MaxTimers)
  \/ StartMonitoringClick /\ Within(MaxTimers)
  \/ CaptureResolve(TRUE, BOOLEAN) /\ Within(MaxTimers)
  \/ CaptureResolve(FALSE, BOOLEAN) /\ Within(MaxTimers)
  \/ InitResolve /\ Within(MaxTimers)
  \/ TickStart /\ InFlight(MaxInFlight)
  \/ FaceResults(Faces, Predictions, MaxEvents) /\ Within(MaxTimers)

Spec == Init /\ [][Next]_vars

\* at most one interval is set, and it is the one detectionInterval holds
OneTimer == timer.id # NoTimer => detectionInterval = timer.id

\* ---------------------------------------------------- SpecScore: a long log
\* A session that is not ended. Every tick sees two faces, a phone, a book,
\* a laptop, a keyboard and a mouse: two high events and four medium ones,
\* so that the penalties pass the full score within the run.
ScoreFaces == {TwoFaces}
ScorePredictions ==
  {<<Prediction("cell phone", 60, FALSE), Prediction("book", 60, FALSE),
     Prediction("laptop", 60, FALSE), Prediction("keyboard", 60, FALSE),
     Prediction("mouse", 60, FALSE)>>}

NextScore ==
  \/ AdvanceClock(1, MaxScoreSeconds)
  \/ StartSessionClick({Ada})
  \/ CreateSessionResolve /\ Within(MaxScoreTimers)
  \/ ClearLogClick /\ Within(MaxScoreTimers)
  \/ StopMonitoringClick /\ Within(MaxScoreTimers)
  \/ CaptureResolve(TRUE, {TRUE}) /\ Within(MaxScoreTimers)
  \/ CaptureResolve(FALSE, {TRUE}) /\ Within(MaxScoreTimers)
  \/ InitResolve /\ Within(MaxScoreTimers)
  \/ TickStart /\ InFlight(MaxInFlight)
  \/ FaceResults(ScoreFaces, ScorePredictions, MaxScoreEvents) /\ Within(MaxScoreTimers)

SpecScore == Init /\ [][NextScore]_vars

\* ------------------------------------------- SpecAway: continuous looking away
\* Every tick sees one face, off centre: focusScore 42, below LookingAwayAvg.
NextAway ==
  \/ AdvanceClock(1, MaxAwaySeconds)
  \/ StartSessionClick({Ada})
  \/ CreateSessionResolve /\ Within(MaxAwayTimers)
  \/ StopMonitoringClick /\ Within(MaxAwayTimers)
  \/ CaptureResolve(TRUE, {TRUE}) /\ Within(MaxAwayTimers)
  \/ CaptureResolve(FALSE, {TRUE}) /\ Within(MaxAwayTimers)
  \/ InitResolve /\ Within(MaxAwayTimers)
  \/ TickStart /\ InFlight(MaxInFlight)
  \/ FaceResults({AwayFace}, {<<>>}, MaxAwayEvents) /\ Within(MaxAwayTimers)

SpecAway == Init /\ [][NextAway]_vars

\* ------------------------------------------- SpecNoFace: continuous absence
\* Every tick sees no face.
NextNoFace ==
  \/ AdvanceClock(1, MaxAbsenceSeconds)
  \/ StartSessionClick({Ada})
  \/ CreateSessionResolve /\ Within(MaxAbsenceTimers)
  \/ StopMonitoringClick /\ Within(MaxAbsenceTimers)
  \/ CaptureResolve(TRUE, {TRUE}) /\ Within(MaxAbsenceTimers)
  \/ CaptureResolve(FALSE, {TRUE}) /\ Within(MaxAbsenceTimers)
  \/ InitResolve /\ Within(MaxAbsenceTimers)
  \/ TickStart /\ InFlight(MaxInFlight)
  \/ FaceResults({NoFace}, {<<>>}, MaxAbsenceEvents) /\ Within(MaxAbsenceTimers)

SpecNoFace == Init /\ [][NextNoFace]_vars

\* ------------------------------- SpecLongAbsence: an absence that goes on
\* Every tick sees no face, and the frames that are processed are more than
\* NoFaceThreshold seconds apart: the interval stops with every change of the
\* dashboard's state and is set again only by a click on "Stop Monitoring".
AbsencePeriods == NoFaceThreshold + 1

NextLongAbsence ==
  \/ AdvanceClock(AbsencePeriods, MaxLongAbsenceSeconds)
  \/ StartSessionClick({Ada})
  \/ CreateSessionResolve /\ Within(MaxLongAbsenceTimers)
  \/ StopMonitoringClick /\ Within(MaxLongAbsenceTimers)
  \/ CaptureResolve(TRUE, {TRUE}) /\ Within(MaxLongAbsenceTimers)
  \/ CaptureResolve(FALSE, {TRUE}) /\ Within(MaxLongAbsenceTimers)
  \/ InitResolve /\ Within(MaxLongAbsenceTimers)
  \/ TickStart /\ InFlight(MaxInFlight)
  \/ FaceResults({NoFace}, {<<>>}, MaxLongAbsenceEvents) /\ Within(MaxLongAbsenceTimers)

SpecLongAbsence == Init /\ [][NextLongAbsence]_vars

\* ------------------------------------------------ SpecAlerts: the alert hook
\* The hook after Prefilled alerts were accepted, one every COOLDOWN_DURATION,
\* their types taken in turn; then calls of addAlert, acknowledgeAlert and
\* clearAlerts as time passes.
Prefilled == AlertsKept - 1
AlertKinds == <<"phone_detected", "notes_detected", "device_detected", "audio_detection">>
AcceptedAt(n) == IntervalMs + (n - 1) * COOLDOWN_DURATION

RECURSIVE AcceptedFrom(_, _)
\* the hook in state st after addAlert has accepted the alerts k .. Prefilled
AcceptedFrom(st, k) ==
  IF k > Prefilled THEN st
  ELSE LET r == addAlert(st, AlertKinds[((k - 1) % Len(AlertKinds)) + 1],
                         <<"alert", "">>, "medium", AcceptedAt(k))
       IN IF r.accepted
          THEN AcceptedFrom([alerts |-> r.alerts, cooldowns |-> r.cooldowns], k + 1)
          ELSE st

AcceptedAlerts ==
  AcceptedFrom([alerts |-> <<>>, cooldowns |-> [t \in AlertTypes |-> 0]], 1)

InitAlerts ==
  /\ now = AcceptedAt(Prefilled)
  /\ alerts = AcceptedAlerts.alerts
  /\ alertCooldowns = AcceptedAlerts.cooldowns
  /\ session = NoSession
  /\ events = <<>>
  /\ noFaceStart = NoDate
  /\ audioResult = Quiet
  /\ isListening = FALSE
  /\ isStreaming = FALSE
  /\ recorder = NoRecorder
  /\ isInitialized = FALSE
  /\ isDetecting = FALSE
  /\ focusHistory = <<>>
  /\ focusLossStartRef = NoDate
  /\ cocoModel = FALSE
  /\ detectionInterval = NoTimer
  /\ timer = NoTimerRec
  /\ nextTimer = 1
  /\ capturePending = [i \in BOOLEAN |-> 0]
  /\ initPending = 0
  /\ sent = 0
  /\ waiting = NoWaiting
  /\ createPending = <<>>
  /\ endPending = <<>>
  /\ serverSessions = 0
  /\ eventPosts = <<>>
  /\ db = <<>>
  /\ response = 0
  /\ handling = <<>>

\* the types of the newest alert and of the one accepted before it
CalledTypes == {AlertKinds[((Prefilled - 1) % Len(AlertKinds)) + 1],
                AlertKinds[((Prefilled - 2) % Len(AlertKinds)) + 1]}

NextAlerts ==
  \/ AdvanceClock(1, (AcceptedAt(Prefilled) \div IntervalMs) - 1 + MaxAlertSeconds)
  \/ AddAlertCall(CalledTypes, {"high", "low"})
  \/ AcknowledgeClick({1, Len(alerts)})
  \/ ClearAlertsClick

SpecAlerts == InitAlerts /\ [][NextAlerts]_vars

\* ------------------------------------------------- SpecClear: clearing
\* One session, started, monitored, ended and cleared in any order. A tick
\* sees two faces, a phone and a laptop: three events at once.
ClearPredictions ==
  {<<Prediction("cell phone", 60, FALSE), Prediction("laptop", 60, FALSE)>>}

NextClear ==
  \/ AdvanceClock(1, MaxClearSeconds)
  \/ StartSessionClick({Ada})
  \/ CreateSessionResolve /\ Within(MaxClearTimers)
  \/ EndSessionClick
  \/ EndSessionResolve /\ Within(MaxClearTimers)
  \/ ClearLogClick /\ Within(MaxClearTimers)
  \/ CaptureResolve(TRUE, {TRUE}) /\ Within(MaxClearTimers)
  \/ CaptureResolve(FALSE, {TRUE}) /\ Within(MaxClearTimers)
  \/ InitResolve /\ Within(MaxClearTimers)
  \/ TickStart /\ InFlight(MaxClearInFlight)
  \/ FaceResults({TwoFaces}, ClearPredictions, MaxClearEvents) /\ Within(MaxClearTimers)

SpecClear == Init /\ [][NextClear]_vars

\* ------------------------------------- SpecThrow: the object model fails
\* A session whose candidate looks away, with an object model that may fail
\* to load, in initializeDetection and in detectFrame.
NextThrow ==
  \/ AdvanceClock(1, MaxThrowSeconds)
  \/ StartSessionClick({Ada})
  \/ CreateSessionResolve /\ Within(MaxThrowTimers)
  \/ StopMonitoringClick /\ Within(MaxThrowTimers)
  \/ CaptureResolve(TRUE, {TRUE}) /\ Within(MaxThrowTimers)
  \/ CaptureResolve(FALSE, {TRUE}) /\ Within(MaxThrowTimers)
  \/ InitResolve /\ Within(MaxThrowTimers)
  \/ InitReject /\ Within(MaxThrowTimers)
  \/ TickStart /\ InFlight(MaxInFlight)
  \/ FaceResults({AwayFace}, {<<>>}, MaxThrowEvents) /\ Within(MaxThrowTimers)
  \/ DetectFrameRejects({AwayFace})

SpecThrow == Init /\ [][NextThrow]_vars

\* ------------------------------------------- SpecSink: the event requests
\* A session that sees two faces on every tick, with a backend that answers
\* the requests of addEvent in any order, or not at all.
NextSink ==
  \/ AdvanceClock(1, MaxSinkSeconds)
  \/ StartSessionClick({Ada})
  \/ CreateSessionResolve /\ Within(MaxSinkTimers)
  \/ StopMonitoringClick /\ Within(MaxSinkTimers)
  \/ CaptureResolve(TRUE, {TRUE}) /\ Within(MaxSinkTimers)
  \/ CaptureResolve(FALSE, {TRUE}) /\ Within(MaxSinkTimers)
  \/ InitResolve /\ Within(MaxSinkTimers)
  \/ TickStart /\ InFlight(MaxSinkInFlight)
  \/ FaceResults({TwoFaces}, {<<>>}, MaxSinkEvents) /\ Within(MaxSinkTimers)
  \/ AddEventResolve(BOOLEAN)

SpecSink == Init /\ [][NextSink]_vars

\* ------------------------------------------ SpecCreate: creating sessions
\* The dashboard's Start Session, with names typed with and without white
\* space, next to clients that post to the backend themselves, with and
\* without a candidateName.
TypedNames == {<<>>, <<" ">>, <<" ", "\t">>, <<" ", "A", " ">>, Ada}
CreateBodies == {[other |-> 0], [candidateName |-> <<>>],
                 [candidateName |-> <<" ">>], [candidateName |-> Ada]}

NextCreate ==
  \/ AdvanceClock(1, MaxCreateSeconds)
  \/ StartSessionClick(TypedNames)
  \/ CreateSessionResolve /\ Within(MaxTimers) /\ Stored(MaxCreateSessions)
  \/ PostSessionsRequest(CreateBodies) /\ Stored(MaxCreateSessions)

SpecCreate == Init /\ [][NextCreate]_vars

\* ------------------------------------------------ SpecReport: the reports
\* A session whose ticks see two faces and a phone, whose event
\* requests arrive or fail, next to a client that posts events of its own:
\* of a type the dashboard did not send, of a type the schema does not know,
\* and without a description.
ReportPredictions == {<<Prediction("cell phone", 60, FALSE)>>}
ReportBodies ==
  {EventArgs("notes_detected", "Books or notes detected", "", "medium", 0),
   EventArgs("tab_switch", "Tab switched", "", "low", 0),
   EventArgs("focus_lost", "", "", "medium", 6000)}

NextReport ==
  \/ AdvanceClock(1, MaxReportSeconds)
  \/ StartSessionClick({Ada})
  \/ CreateSessionResolve /\ Within(MaxReportTimers)
  \/ CaptureResolve(FALSE, {TRUE}) /\ Within(MaxReportTimers)
  \/ InitResolve /\ Within(MaxReportTimers)
  \/ TickStart /\ InFlight(MaxReportInFlight)
  \/ FaceResults({TwoFaces}, ReportPredictions, MaxReportEvents) /\ Within(MaxReportTimers)
  \/ AddEventResolve(BOOLEAN) /\ Logged(MaxReportEvents)
  \/ PostEventsRequest({1, 2}, ReportBodies) /\ Logged(MaxReportEvents)

SpecReport == Init /\ [][NextReport]_vars

\* ------------------------------------------- SpecDuration: long sessions
\* A session of up to two minutes, started and ended at any of the times the
\* clock takes, with a candidate in front of the camera.
NextDuration ==
  \/ AdvanceClock(DurationPeriods, MaxDurationSeconds)
  \/ StartSessionClick({Ada})
  \/ CreateSessionResolve /\ Within(MaxDurationTimers)
  \/ EndSessionClick
  \/ EndSessionResolve /\ Within(MaxDurationTimers)
  \/ CaptureResolve(FALSE, {TRUE}) /\ Within(MaxDurationTimers)
  \/ InitResolve /\ Within(MaxDurationTimers)
  \/ TickStart /\ InFlight(MaxInFlight)
  \/ FaceResults({FocusedFace}, {<<>>}, MaxDurationEvents) /\ Within(MaxDurationTimers)

SpecDuration == Init /\ [][NextDuration]_vars

\* ----------------------------------------------- SpecAudio: the microphone
\* A session with a candidate in front of the camera, with or without a
\* laptop in view, and audio detection switched on and off.
AudioPredictions == {<<>>, <<Prediction("laptop", 60, FALSE)>>}

NextAudio ==
  \/ AdvanceClock(1, MaxAudioSeconds)
  \/ StartSessionClick({Ada})
  \/ CreateSessionResolve /\ Within(MaxAudioTimers)
  \/ ToggleAudioClick /\ Within(MaxAudioTimers)
  \/ AudioFrame /\ Within(MaxAudioTimers)
  \/ CaptureResolve(FALSE, {TRUE}) /\ Within(MaxAudioTimers)
  \/ InitResolve /\ Within(MaxAudioTimers)
  \/ TickStart /\ InFlight(MaxAudioInFlight)
  \/ FaceResults({FocusedFace}, AudioPredictions, MaxAudioEvents) /\ Within(MaxAudioTimers)

SpecAudio == Init /\ [][NextAudio]_vars

\* ------------------------------------- SpecShared: events next to alerts
\* A session whose ticks all see a phone, some with a second face, at times
\* less and more than COOLDOWN_DURATION apart.
SharedPeriods == 2
SharedPredictions == {<<Prediction("cell phone", 60, FALSE)>>}

NextShared ==
  \/ AdvanceClock(SharedPeriods, MaxSharedSeconds)
  \/ StartSessionClick({Ada})
  \/ CreateSessionResolve /\ Within(MaxSharedTimers)
  \/ StopMonitoringClick /\ Within(MaxSharedTimers)
  \/ CaptureResolve(TRUE, {TRUE}) /\ Within(MaxSharedTimers)
  \/ CaptureResolve(FALSE, {TRUE}) /\ Within(MaxSharedTimers)
  \/ InitResolve /\ Within(MaxSharedTimers)
  \/ TickStart /\ InFlight(MaxSharedInFlight)
  \/ FaceResults({FocusedFace, TwoFaces}, SharedPredictions, MaxSharedEvents)
       /\ Within(MaxSharedTimers)

SpecShared == Init /\ [][NextShared]_vars

\* --------------------------------------- SpecAck: acknowledging alerts
\* The alert hook from its first state: alerts of two types are raised, with
\* and without their cooldown over, acknowledged at the head, in the middle
\* and at the tail of the list, and cleared.
AckTypes == {"phone_detected", "audio_detection"}

NextAck ==
  \/ AdvanceClock(1, MaxAckSeconds)
  \/ AddAlertCall(AckTypes, {"high"})
  \/ AcknowledgeClick({1, 2, Len(alerts)})
  \/ ClearAlertsClick

SpecAck == Init /\ [][NextAck]_vars

\* ------------------------------- SpecConcurrent: requests side by side
\* A session whose tick sees two faces and a phone: addEvent sends two
\* requests at once, and the backend handles them side by side, each between
\* its findOne and its save.
ConcurrentPredictions == {<<Prediction("cell phone", 60, FALSE)>>}

NextConcurrent ==
  \/ AdvanceClock(1, MaxConcurrentSeconds)
  \/ StartSessionClick({Ada})
  \/ CreateSessionResolve /\ Within(MaxConcurrentTimers)
  \/ StopMonitoringClick /\ Within(MaxConcurrentTimers)
  \/ CaptureResolve(TRUE, {TRUE}) /\ Within(MaxConcurrentTimers)
  \/ CaptureResolve(FALSE, {TRUE}) /\ Within(MaxConcurrentTimers)
  \/ InitResolve /\ Within(MaxConcurrentTimers)
  \/ TickStart /\ InFlight(MaxConcurrentInFlight)
  \/ FaceResults({TwoFaces}, ConcurrentPredictions, MaxConcurrentEvents)
       /\ Within(MaxConcurrentTimers)
  \/ PostEventsFind({TRUE})
  \/ PostEventsSave

SpecConcurrent == Init /\ [][NextConcurrent]_vars

\* ------------------------------------ SpecMirror: the backend's session
\* One session, started, monitored, cleared and ended in any order, with
\* ticks that see two faces and a backend that answers every request of
\* addEvent, one after the other.
NextMirror ==
  \/ AdvanceClock(1, MaxMirrorSeconds)
  \/ StartSessionClick({Ada})
  \/ CreateSessionResolve /\ Within(MaxMirrorTimers)
  \/ EndSessionClick
  \/ EndSessionResolve /\ Within(MaxMirrorTimers)
  \/ ClearLogClick /\ Within(MaxMirrorTimers)
  \/ CaptureResolve(TRUE, {TRUE}) /\ Within(MaxMirrorTimers)
  \/ CaptureResolve(FALSE, {TRUE}) /\ Within(MaxMirrorTimers)
  \/ InitResolve /\ Within(MaxMirrorTimers)
  \/ TickStart /\ InFlight(MaxMirrorInFlight)
  \/ FaceResults({TwoFaces}, {<<>>}, MaxMirrorEvents) /\ Within(MaxMirrorTimers)
  \/ AddEventResolve({TRUE})

SpecMirror == Init /\ [][NextMirror]_vars

\* ------------------------------------------------ SpecRecord: recording
\* A session that is monitored and ended, with recordings started and
\* stopped from the record button and monitoring stopped from its button.
NextRecord ==
  \/ AdvanceClock(1, MaxRecordSeconds)
  \/ StartSessionClick({Ada})
  \/ CreateSessionResolve /\ Within(MaxRecordTimers)
  \/ EndSessionClick
  \/ EndSessionResolve /\ Within(MaxRecordTimers)
  \/ StopMonitoringClick /\ Within(MaxRecordTimers)
  \/ RecordClick
  \/ CaptureResolve(TRUE, BOOLEAN) /\ Within(MaxRecordTimers)
  \/ CaptureResolve(FALSE, BOOLEAN) /\ Within(MaxRecordTimers)
  \/ InitResolve /\ Within(MaxRecordTimers)
  \/ TickStart /\ InFlight(MaxRecordInFlight)
  \/ FaceResults({FocusedFace}, {<<>>}, MaxRecordEvents) /\ Within(MaxRecordTimers)

SpecRecord == Init /\ [][NextRecord]_vars

\* ================================================================ claims
\* the events of the log that have the given type / severity
OfType(log, type) == {i \in 1..Len(log) : log[i].type = type}
OfSeverity(log, severity) == {i \in 1..Len(log) : log[i].severity = severity}

\* ---------------------------------------------------------------------- C1
\* max(0, 100 - 10*#high - 5*#medium - 2*#low) over the events of the log
ScoreOf(log) ==
  Max(0, 100 - 10 * Cardinality(OfSeverity(log, "high"))
             - 5 * Cardinality(OfSeverity(log, "medium"))
             - 2 * Cardinality(OfSeverity(log, "low")))

\* C1: after every step that changes the local event log (an append by
\* addEvent, a clearLog, the reset at session start), the integrityScore of
\* the session equals max(0, 100 - 10*#high - 5*#medium - 2*#low) counted over
\* the events the log holds after the step.
C1_ScoreFollowsLog ==
  [][events' # events =>
       (session'.status # "none" => session'.integrityScore = ScoreOf(events'))]_vars

\* C1's case: the log holds more penalties than the full score, and the
\* session's score has been set from it to zero.
C1_Witness ==
  /\ session.status # "none"
  /\ session.events = events
  /\ 10 * Cardinality(OfSeverity(events, "high"))
       + 5 * Cardinality(OfSeverity(events, "medium")) > 100
  /\ OfSeverity(events, "medium") # {}
  /\ session.integrityScore = 0

\* ---------------------------------------------------------------------- C2
\* C2: two events of one type in the log are at least the cooldown window
\* (5 s) apart: of two ticks less than 5 s apart that both qualify for a type,
\* only one appends an event of that type.
C2_EventCooldown ==
  \A i, j \in 1..Len(events) :
    (i < j /\ events[i].type = events[j].type)
      => events[i].timestamp - events[j].timestamp >= 5000

\* ---------------------------------------------------------------------- C3
\* C3: while one looking-away occurrence lasts (focusLossStartRef holds its
\* start), the log holds at most one focus_lost event appended since it began.
C3_FocusLostOnce ==
  focusLossStartRef # NoDate =>
    Cardinality({i \in OfType(events, "focus_lost") :
                   events[i].timestamp >= focusLossStartRef}) <= 1

\* ---------------------------------------------------------------------- C4
\* C4: during one uninterrupted absence of the face (every frame of
\* SpecLongAbsence shows no face) the log holds at most one no_face event.
C4_NoFaceOnce == Cardinality(OfType(events, "no_face")) <= 1

\* ---------------------------------------------------------------------- C5
\* C5: within the first 12 seconds of a fresh session in which every frame
\* shows no face (the run of SpecNoFace), once the no_face event is in the log
\* it is the only event there, its severity is high and the score is 90.
C5_TwelveSecondsNoFace ==
  OfType(events, "no_face") # {} =>
    /\ Len(events) = 1
    /\ events[1].severity = "high"
    /\ session.integrityScore = 90

\* ---------------------------------------------------------------------- C6
\* C6: in every state of the alert hook, a call of addAlert for a type whose
\* last accepted alert is less than 5000 ms old changes neither the alert
\* list nor the cooldown table and plays no sound; any other call is
\* accepted: it puts the new alert in front, records the current time for
\* its type and leaves the times of the other types alone. And two alerts of
\* one type in the list are at least 5000 ms apart.
C6_AlertCooldown ==
  /\ \A type \in AlertTypes, severity \in {"low", "medium", "high"} :
       LET r == addAlert([alerts |-> alerts, cooldowns |-> alertCooldowns],
                         type, <<"alert", "">>, severity, now)
       IN IF alertCooldowns[type] # 0 /\ now - alertCooldowns[type] < 5000
          THEN /\ r.alerts = alerts
               /\ r.cooldowns = alertCooldowns
               /\ ~r.sound
          ELSE /\ r.alerts # <<>>
               /\ Head(r.alerts).type = type
               /\ Head(r.alerts).timestamp = now
               /\ r.cooldowns[type] = now
               /\ \A other \in AlertTypes \ {type} :
                    r.cooldowns[other] = alertCooldowns[other]
  /\ \A i, j \in 1..Len(alerts) :
       (i < j /\ alerts[i].type = alerts[j].type)
         => alerts[i].timestamp - alerts[j].timestamp >= 5000

\* C6's case: an alert was accepted exactly 5000 ms after the one of its type
\* before it, and a type is under cooldown, 4000 ms after its last alert.
C6_Witness ==
  /\ \E i, j \in 1..Len(alerts) :
       /\ i < j
       /\ alerts[i].type = alerts[j].type
       /\ alerts[i].timestamp - alerts[j].timestamp = 5000
  /\ \E type \in AlertTypes :
       alertCooldowns[type] # 0 /\ now - alertCooldowns[type] = 4000

\* ---------------------------------------------------------------------- C7
\* C7: the alert list never holds more than 50 alerts, and a step that
\* accepts an alert (the cooldown table changes) puts it in front of the
\* alerts held before, in their order, dropping the last (oldest) one only
\* when 50 were held.
C7_AlertCap ==
  [][IF alertCooldowns' # alertCooldowns
     THEN /\ Len(alerts') = (IF Len(alerts) < 50 THEN Len(alerts) + 1 ELSE 50)
          /\ \A i \in 2..Len(alerts') : alerts'[i] = alerts[i - 1]
     ELSE Len(alerts') <= 50]_vars

\* C7's case: the list is full and the oldest alert accepted has been dropped.
C7_Witness ==
  /\ Len(alerts) = 50
  /\ alerts[50].timestamp > AcceptedAt(1)

\* ---------------------------------------------------------------------- C8
\* the class names of the predictions that pass detectFrame's filter in Spec
DetectedClasses ==
  UNION {{preds[i].class : i \in {k \in 1..Len(preds) : PassesFilter(preds[k])}} :
           preds \in Predictions}

\* the event the classification gives for a detector label
ClassifiedEvent(raw) ==
  IF normalizeLabel(raw) = "phone"
  THEN [type |-> "phone_detected", severity |-> "high", object |-> ""]
  ELSE IF normalizeLabel(raw) \in {"book", "paper", "notes"}
  THEN [type |-> "notes_detected", severity |-> "medium", object |-> ""]
  ELSE [type |-> "device_detected", severity |-> "medium", object |-> raw]

\* C8: every object event of the log is the event of one of the labels the
\* detector gave: phone_detected (high) for a label normalized to phone,
\* notes_detected (medium) for book, paper or notes, and device_detected
\* (medium) with the raw label in its description for any other label.
C8_ObjectClassification ==
  \A i \in 1..Len(events) :
    events[i].type \in {"phone_detected", "notes_detected", "device_detected"} =>
      \E raw \in DetectedClasses :
        /\ events[i].type = ClassifiedEvent(raw).type
        /\ events[i].severity = ClassifiedEvent(raw).severity
        /\ events[i].type = "device_detected" => events[i].object = raw

\* ---------------------------------------------------------------------- C9
\* C9: once the session is completed, every step leaves its status completed
\* and its endTime as it is, and leaves its events and score alone or, with
\* clearLog, resets them to the empty log and 100.
C9_CompletedStays ==
  [][session.status = "completed" =>
       /\ session'.status = "completed"
       /\ session'.endTime = session.endTime
       /\ \/ /\ session'.events = session.events
             /\ session'.integrityScore = session.integrityScore
          \/ /\ session'.events = <<>>
             /\ session'.integrityScore = 100]_vars

\* --------------------------------------------------------------------- C10
\* C10: while the session is not active (the monitor has been stopped), no
\* step appends an event to the log.
C10_NoEventAfterStop ==
  [][session.status # "active" => Len(events') <= Len(events)]_vars

\* --------------------------------------------------------------------- C11
\* C11: at most one frame is with the face detector at any time: a tick does
\* not start detectFrame while the detectFrame of an earlier tick is pending.
C11_NoOverlap == sent <= 1

\* --------------------------------------------------------------------- C12
\* C12: every click on Clear leaves the log empty; while a session exists it
\* leaves the session with no events and an integrityScore of exactly 100,
\* whatever the log and the score were, and with the id, candidateName,
\* startTime, endTime and status it had (an active session stays active, a
\* completed one completed).
C12_ClearLog ==
  [][ClearLogClick =>
       /\ events' = <<>>
       /\ session.status # "none" =>
            /\ session'.events = <<>>
            /\ session'.integrityScore = 100
            /\ session'.id = session.id
            /\ session'.candidateName = session.candidateName
            /\ session'.startTime = session.startTime
            /\ session'.endTime = session.endTime
            /\ session'.status = session.status]_vars

\* C12's case: the active session has sent three events to the backend, and
\* its log is empty and its score 100 again.
C12_Witness ==
  /\ session.status = "active"
  /\ Len(eventPosts) = 3
  /\ \A i \in 1..3 : eventPosts[i].id = session.id
  /\ events = <<>>
  /\ session.events = <<>>
  /\ session.integrityScore = 100

\* --------------------------------------------------------------------- C13
\* C13: a tick whose detectFrame rejects appends no event and leaves the
\* focus history, the focus-loss start time and the no-face start time as
\* they were.
C13_RejectChangesNothing ==
  [][DetectFrameRejects({AwayFace}) =>
       UNCHANGED <<events, session, focusHistory, focusLossStartRef,
                   noFaceStart>>]_vars

\* --------------------------------------------------------------------- C14
\* C14: when a request of addEvent fails, the local log and the session
\* (its events, integrityScore and status) stay as they are, no request is
\* sent in its place, and the sampling loop is left as it is, so that later
\* ticks append events as before.
C14_FailedPost ==
  [][AddEventResolve({FALSE}) =>
       /\ UNCHANGED <<events, session, noFaceStart, isStreaming, isDetecting,
                      detectionInterval, timer, sent, waiting>>
       /\ Len(eventPosts') = Len(eventPosts) - 1]_vars

\* C14's case: two events are in the log, the request for the older one has
\* failed (it is neither in flight nor in the backend's session), and the
\* newer one was appended by a later tick.
C14_Witness ==
  /\ session.status = "active"
  /\ Len(events) = 2
  /\ session.events = events
  /\ session.integrityScore = 80
  /\ events[1].timestamp > events[2].timestamp
  /\ db[session.id].events = <<>>
  /\ \A i \in 1..Len(eventPosts) : eventPosts[i].id = session.id
  /\ Len(eventPosts) = 1

\* --------------------------------------------------------------------- C15
\* a name of white space only, the empty name included
Blank(name) == \A i \in 1..Len(name) : name[i] \in {" ", "\t"}

\* C15: no createSession request in flight carries an empty or
\* white-space-only name and the dashboard's session never has one; no session
\* the backend stores has an empty candidateName; and in every state the
\* backend answers a create request with a missing or an empty candidateName
\* with an error and stores nothing.
C15_NoEmptyName ==
  /\ \A i \in 1..Len(createPending) : ~Blank(createPending[i])
  /\ session.status # "none" => ~Blank(session.candidateName)
  /\ \A i \in 1..Len(db) : db[i].candidateName # <<>>
  /\ \A body \in {[other |-> 0], [candidateName |-> <<>>]} :
       LET answer == postSessions(db, body, serverSessions + 1, now)
       IN answer.status >= 400 /\ answer.db = db

\* C15's case: a create request without a name has just been refused with
\* 400, and the dashboard's session was created from a name typed with white
\* space around it.
C15_Witness ==
  /\ response = 400
  /\ session.status = "active"
  /\ session.candidateName = <<"A">>
  /\ Len(db) = 1

\* --------------------------------------------------------------------- C16
SixCounts(counts, keys) ==
  /\ DOMAIN counts = keys
  /\ \A k \in keys : counts[k] \in Nat

\* C16: in every state, the backend's report of every stored session has the
\* six categories in eventsByType, each a count (0 where the session has no
\* event of the type), the six add up to totalEvents, and totalEvents is the
\* number of events of the session; and the dashboard's report of its
\* session has the six categories, which add up to the number of events of
\* the session.
C16_ReportCounts ==
  /\ \A id \in 1..Len(db) :
       LET r == report(db[id], now)
           c == r.eventsByType
       IN /\ SixCounts(c, {"focusLost", "noFace", "multipleFaces",
                           "phoneDetected", "notesDetected", "deviceDetected"})
          /\ c.focusLost + c.noFace + c.multipleFaces + c.phoneDetected
               + c.notesDetected + c.deviceDetected = r.totalEvents
          /\ r.totalEvents = Len(db[id].events)
          /\ c.focusLost = Cardinality(OfType(db[id].events, "focus_lost"))
          /\ c.noFace = Cardinality(OfType(db[id].events, "no_face"))
          /\ c.multipleFaces = Cardinality(OfType(db[id].events, "multiple_faces"))
          /\ c.phoneDetected = Cardinality(OfType(db[id].events, "phone_detected"))
          /\ c.notesDetected = Cardinality(OfType(db[id].events, "notes_detected"))
          /\ c.deviceDetected = Cardinality(OfType(db[id].events, "device_detected"))
  /\ session.status # "none" =>
       LET r == getEventStats(session)
           c == r.stats
       IN /\ SixCounts(c, {"focusLoss", "noFace", "multipleFaces",
                           "phoneDetected", "notesDetected", "deviceDetected"})
          /\ c.focusLoss + c.noFace + c.multipleFaces + c.phoneDetected
               + c.notesDetected + c.deviceDetected = Len(session.events)
          /\ r.totalViolations = Len(session.events)

\* C16's case: the stored session holds three events of three types, some
\* type has none, the backend has just refused an event (500), and the
\* dashboard's session holds events of two types.
C16_Witness ==
  /\ session.status = "active"
  /\ Len(session.events) = 2
  /\ getEventStats(session).stats.multipleFaces = 1
  /\ Len(db[session.id].events) = 3
  /\ report(db[session.id], now).eventsByType.notesDetected = 1
  /\ report(db[session.id], now).eventsByType.multipleFaces = 1
  /\ report(db[session.id], now).eventsByType.focusLost = 0
  /\ response = 500

\* --------------------------------------------------------------------- C17
\* m is a number of minutes nearest to the time from one instant to another
\* (at a half, the minute below and the minute above both are)
NearestMinute(m, from, to) ==
  LET off == m * 60000 - (to - from)
  IN 2 * (IF off >= 0 THEN off ELSE 0 - off) <= 60000

\* the end of a session for its report: its endTime, or the current time
\* while it has none
ReportEnd(s) == IF s.endTime # NoDate THEN s.endTime ELSE now

\* C17: in every state, the dashboard's report and the backend's report of
\* a session give the minutes from startTime to endTime (the current time
\* while there is no endTime), rounded to the nearest minute; and when the
\* dashboard's session and the stored one have the same startTime and
\* endTime the two durations are equal.
C17_Duration ==
  /\ \A id \in 1..Len(db) :
       NearestMinute(report(db[id], now).duration, db[id].startTime, ReportEnd(db[id]))
  /\ session.status # "none" =>
       /\ NearestMinute(duration(session, now), session.startTime, ReportEnd(session))
       /\ (/\ db[session.id].startTime = session.startTime
           /\ db[session.id].endTime = session.endTime)
            => report(db[session.id], now).duration = duration(session, now)

\* --------------------------------------------------------------------- C18
\* a detectFrame call that waited gets its face results in this step
ResultsHandled == waiting.pending /\ sent' = sent - 1

\* C18, looking away: a tick whose result is still looking away, exactly
\* 5 s after the looking away began, appends a focus_lost event.
C18_FocusAtFiveSeconds ==
  [][(/\ ResultsHandled
      /\ focusLossStartRef # NoDate
      /\ focusLossStartRef' = focusLossStartRef
      /\ now - focusLossStartRef = 5000)
       => Cardinality(OfType(events', "focus_lost"))
            = Cardinality(OfType(events, "focus_lost")) + 1]_vars

\* C18, absence: a tick without a face, exactly 10 s after the absence
\* began, appends a no_face event.
C18_AbsenceAtTenSeconds ==
  [][(/\ ResultsHandled
      /\ focusHistory'[Len(focusHistory')] = 0
      /\ noFaceStart # NoDate
      /\ waiting.H.noFaceStart = noFaceStart
      /\ now - noFaceStart = 10000)
       => Cardinality(OfType(events', "no_face"))
            = Cardinality(OfType(events, "no_face")) + 1]_vars

\* C18: both thresholds are inclusive.
C18_InclusiveThresholds == C18_FocusAtFiveSeconds /\ C18_AbsenceAtTenSeconds

\* --------------------------------------------------------------------- C19
\* the severity the claim fixes for each type of event
SeverityOfType ==
  [focus_lost |-> "medium", no_face |-> "high", multiple_faces |-> "high",
   phone_detected |-> "high", notes_detected |-> "medium",
   device_detected |-> "medium"]

\* C19: every event in the log has the severity of its type: focus_lost
\* medium, no_face high, multiple_faces high, phone_detected high,
\* notes_detected medium, device_detected medium.
C19_SeverityByType ==
  \A i \in 1..Len(events) :
    /\ events[i].type \in DOMAIN SeverityOfType
    /\ events[i].severity = SeverityOfType[events[i].type]

\* --------------------------------------------------------------------- C20
\* the result handled in this step has a face / the one handled before had
\* none (the focus score pushed to the history is 0 exactly without a face)
FaceSeen == focusHistory'[Len(focusHistory')] > 0
AbsenceBefore == focusHistory # <<>> /\ focusHistory[Len(focusHistory)] = 0

\* C20: a tick with a face leaves the no-face start time unset; the first
\* tick without a face sets it to the time of the tick; a later tick of the
\* same absence reads the start time that tick set, the one the state holds,
\* and leaves it as it is.
C20_NoFaceTracker ==
  [][ResultsHandled =>
       IF FaceSeen THEN noFaceStart' = NoDate
       ELSE IF ~AbsenceBefore THEN noFaceStart' = now
       ELSE /\ waiting.H.noFaceStart # NoDate
            /\ waiting.H.noFaceStart = noFaceStart
            /\ noFaceStart' = noFaceStart]_vars

\* --------------------------------------------------------------------- C21
\* an alert of the type was accepted less than the cooldown ago
Cooling(type) == alertCooldowns[type] # 0 /\ now - alertCooldowns[type] < 5000

\* C21: a tick that sees a phone appends its phone_detected event whatever the
\* alert cooldown table holds, also while the phone alert is suppressed; the
\* events it appends are those of what it sees (the phone, and a second face
\* if there is one); and the step changes the alert cooldown table only by
\* the entry of an alert it accepts: not at all while the alert is suppressed.
C21_IndependentCooldowns ==
  [][ResultsHandled =>
       /\ Cardinality(OfType(events', "phone_detected"))
            = Cardinality(OfType(events, "phone_detected")) + 1
       /\ Len(events') - Len(events) \in {1, 2}
       /\ Len(events') - Len(events) = 2 =>
            Cardinality(OfType(events', "multiple_faces"))
              = Cardinality(OfType(events, "multiple_faces")) + 1
       /\ \A type \in AlertTypes \ {"phone_detected"} :
            alertCooldowns'[type] = alertCooldowns[type]
       /\ IF Cooling("phone_detected")
          THEN UNCHANGED <<alerts, alertCooldowns>>
          ELSE alertCooldowns'["phone_detected"] = now]_vars

\* C21's case: the log holds two phone_detected events less than 5 s apart
\* and a third one later, and the alert list holds the alerts of the first
\* and of the third only.
C21_Witness ==
  /\ Len(events) = 3
  /\ \A i \in 1..3 : events[i].type = "phone_detected"
  /\ events[2].timestamp - events[3].timestamp < 5000
  /\ events[1].timestamp - events[3].timestamp >= 5000
  /\ Len(alerts) = 2
  /\ alerts[2].timestamp = events[3].timestamp
  /\ alerts[1].timestamp = events[1].timestamp

\* --------------------------------------------------------------------- C22
\* the log read from its tail to its head is in the order of the timestamps
Chronological(log) ==
  \A i, j \in 1..Len(log) : i < j => log[i].timestamp >= log[j].timestamp

\* C22: every step that makes the log longer puts the new events at its head,
\* with the time of the step, and leaves the events it held, unchanged and
\* in their order, behind them; and in every state the log read from tail to
\* head is in chronological order of the timestamps.
C22_AppendOrder ==
  /\ []Chronological(events)
  /\ [][Len(events') > Len(events) =>
          LET added == Len(events') - Len(events)
          IN /\ SubSeq(events', added + 1, Len(events')) = events
             /\ \A k \in 1..added : events'[k].timestamp = now]_vars

\* C22's case: the log holds the events of two ticks, those of the later
\* tick in front of those of the earlier one.
C22_Witness ==
  /\ Len(events) = 12
  /\ events[1].timestamp > events[12].timestamp
  /\ events[6].timestamp > events[7].timestamp
  /\ events[12].type = "multiple_faces"
  /\ events[7].type = "device_detected"

\* --------------------------------------------------------------------- C23
\* the ids of the alerts of the list, and an id that none of them has
AlertIds(list) == {list[i].id : i \in 1..Len(list)}
UnknownId == <<"phone_detected", 0>>

\* acknowledgeAlert(id) on the list: the result has the alerts of the list in
\* their order, each as it was but for the flag, which is set on the alerts
\* with the id (there is one, or none) and as it was on the others
Acknowledges(list, id) ==
  LET r == acknowledgeAlert(list, id)
  IN /\ Len(r) = Len(list)
     /\ \A i \in 1..Len(list) :
          /\ r[i].acknowledged = (list[i].acknowledged \/ list[i].id = id)
          /\ [r[i] EXCEPT !.acknowledged = FALSE]
               = [list[i] EXCEPT !.acknowledged = FALSE]
     /\ Cardinality({i \in 1..Len(list) : list[i].id = id})
          = (IF id \in AlertIds(list) THEN 1 ELSE 0)
     /\ acknowledgeAlert(r, id) = r
     /\ id \notin AlertIds(list) => r = list

\* C23: in every state of the alert hook acknowledgeAlert(id) sets the flag
\* of the alert with that id and changes nothing else in the list, a second
\* call changes nothing, and a call with an id not in the list changes
\* nothing; a click on acknowledge leaves the cooldown table alone; and no
\* step takes the flag from an alert that has it.
C23_Acknowledge ==
  /\ [](\A id \in AlertIds(alerts) \cup {UnknownId} : Acknowledges(alerts, id))
  /\ [][/\ AcknowledgeClick({1, 2, Len(alerts)}) => UNCHANGED alertCooldowns
        /\ \A i \in 1..Len(alerts), j \in 1..Len(alerts') :
             (alerts[i].acknowledged /\ alerts'[j].id = alerts[i].id)
               => alerts'[j].acknowledged]_vars

\* C23's case: of four alerts the second and the last are acknowledged, the
\* second having moved down behind a newer alert that is not, and the third
\* is not.
C23_Witness ==
  /\ Len(alerts) = 4
  /\ ~alerts[1].acknowledged
  /\ alerts[2].acknowledged
  /\ ~alerts[3].acknowledged
  /\ alerts[4].acknowledged

\* --------------------------------------------------------------------- C24
\* C24: a step changes the cooldown entry of a type only by accepting an
\* alert of that type: the entry becomes the time of the step, the alert is
\* at the head of the list, and the entry was missing or at least 5000 ms
\* old; so an entry is never removed. clearAlerts empties the list and leaves
\* the table as it is. And in every state, also with the list cleared, an
\* addAlert of a type whose entry is less than 5000 ms old is rejected.
C24_CooldownsKept ==
  /\ [][/\ \A type \in AlertTypes :
             alertCooldowns'[type] # alertCooldowns[type] =>
               /\ alertCooldowns'[type] = now
               /\ ~Cooling(type)
               /\ alerts' # <<>>
               /\ alerts'[1].type = type
               /\ alerts'[1].timestamp = now
        /\ ClearAlertsClick => alerts' = <<>> /\ UNCHANGED alertCooldowns]_vars
  /\ [](\A type \in AlertTypes :
          Cooling(type) =>
            LET r == addAlert([alerts |-> alerts, cooldowns |-> alertCooldowns],
                              type, <<"alert", "">>, "high", now)
            IN ~r.accepted /\ r.alerts = alerts /\ r.cooldowns = alertCooldowns)

\* C24's case: the list has been cleared while the table holds the entry of
\* a phone alert less than 5000 ms old and an audio entry older than that.
C24_Witness ==
  /\ alerts = <<>>
  /\ now >= 6000
  /\ Cooling("phone_detected")
  /\ ~Cooling("audio_detection")
  /\ alertCooldowns["audio_detection"] # 0

\* --------------------------------------------------------------------- C25
\* C25: while the session is active and capture and detection are on, an
\* interval is set: no step (a tick that appends an event or changes the
\* tracker state among them) leaves the monitor with its interval cleared and
\* no new one created.
C25_LoopAlive ==
  (IsActive(session) /\ isStreaming /\ isDetecting) => timer.id # NoTimer

\* --------------------------------------------------------------------- C26
\* C26: while a session exists, its events are the events of the Event Log
\* and its integrityScore is the score of that list.
C26_SameLog ==
  session.status # "none" =>
    /\ session.events = events
    /\ session.integrityScore = ScoreOf(events)

\* --------------------------------------------------------------------- C27
\* C27, the score: the integrityScore of every stored session is
\* max(0, 100 - 10*#high - 5*#medium - 2*#low) over the events stored for it.
C27_StoredScore ==
  \A id \in 1..Len(db) : db[id].integrityScore = ScoreOf(db[id].events)

\* the requests for the session that are on the way or being handled
Outstanding(id) ==
  Cardinality({i \in 1..Len(eventPosts) : eventPosts[i].id = id})
    + Cardinality({j \in 1..Len(handling) : handling[j].id = id})

\* C27, the events: every event the dashboard's session has sent (all are
\* accepted here) is stored once, or its request is not answered yet.
C27_StoredOnce ==
  session.status # "none" =>
    /\ Len(db[session.id].events) + Outstanding(session.id) = Len(events)
    /\ \A type \in EventTypes :
         Cardinality(OfType(db[session.id].events, type))
           <= Cardinality(OfType(events, type))

\* C27: after any interleaving of add-event requests for a session, several
\* of one tick among them, the stored score is the score of the stored
\* events and every accepted event is stored exactly once.
C27_BackendScore == C27_StoredScore /\ C27_StoredOnce

\* --------------------------------------------------------------------- C28
\* no request of the dashboard is on the way or being handled
AllCompleted ==
  /\ createPending = <<>>
  /\ endPending = <<>>
  /\ eventPosts = <<>>
  /\ handling = <<>>

\* C28: once all requests have completed, the stored session has as many
\* events of each type and of each severity as the dashboard's session, and
\* the same integrityScore and status.
C28_BackendMatches ==
  (session.status # "none" /\ AllCompleted) =>
    LET stored == db[session.id]
    IN /\ \A type \in EventTypes :
            Cardinality(OfType(stored.events, type))
              = Cardinality(OfType(session.events, type))
       /\ \A severity \in Severities :
            Cardinality(OfSeverity(stored.events, severity))
              = Cardinality(OfSeverity(session.events, severity))
       /\ stored.integrityScore = session.integrityScore
       /\ stored.status = session.status

\* --------------------------------------------------------------------- C29
\* the alerts of the list raised for multiple voices
VoiceAlerts(list) ==
  {i \in 1..Len(list) : list[i].message = <<"Multiple voices detected", "">>}

\* C29: a tick that is handled while multipleVoices is true (in the audio
\* result of the state and in the one its handler reads), with no
\* multiple-voices alert accepted in the 5000 ms before it, accepts a
\* high-severity "Multiple voices detected" alert, whatever the background
\* noise is.
C29_VoicesAlert ==
  [][(/\ ResultsHandled
      /\ audioResult.multipleVoices
      /\ waiting.H.audioResult.multipleVoices
      /\ \A i \in VoiceAlerts(alerts) : now - alerts[i].timestamp >= 5000)
       => \E i \in VoiceAlerts(alerts') :
            /\ alerts'[i].timestamp = now
            /\ alerts'[i].severity = "high"]_vars

\* --------------------------------------------------------------------- C30
\* C30: whenever capture is off (before the first startCapture, and after
\* every stopCapture), no recording is in progress: mediaRecorderRef holds no
\* recorder and isRecording is false.
C30_StopCaptureStopsRecording ==
  ~isStreaming => (~recorder.isRecording /\ ~recorder.mediaRecorderRef)

====
